---- MODULE Spec2Model ----
(***************************************************************************)
(* A model of siswrapper (src/siswrapper/siswrapper.py): a session object  *)
(* that drives one interactive SIS child process through pexpect.          *)
(*                                                                         *)
(* Text is a sequence of tokens.  A token is a word, a blank (" "), the    *)
(* line break NL ("\r\n"), the prompt "sis>" or a pagination marker.       *)
(* Python's None is the value None; an error string is a sequence of       *)
(* message tags, the contexts that were prefixed to it first.              *)
(***************************************************************************)
EXTENDS Integers, Sequences, FiniteSets, TLC

VARIABLES
    started,        \* self.started
    readsomething,  \* self.readsomething
    read_path,      \* self.read_path
    sis,            \* self.sis: the process the handle refers to, 0 for None
    nspawned,       \* how many processes pexpect.spawn has created so far
    alive,          \* the spawned processes that are still alive
    pending,        \* commands sent to the owned process whose prompt was not yet observed
    closed,         \* close(force=True) was called on self.sis
    res,            \* the envelope returned by the last operation
    sent,           \* what the last operation wrote to child processes, in order
    pre,            \* the session fields as they were when the last operation was called
    prev,           \* "stop" when the operation before the last one was a successful stop()
    io,             \* the inputs of the last operation: its arguments and the child's behaviour
    waiting         \* where an exec() that is followed step by step is in wait_end_command

vars == <<started, readsomething, read_path, sis, nspawned, alive, pending, closed,
          res, sent, pre, prev, io, waiting>>

(***************************************************************************)
(* Bounds of the model.                                                    *)
(***************************************************************************)
MaxSpawn == 2   \* processes spawned during one behaviour
MaxMore == 2    \* pagination markers in one response
MaxPending == 1 \* commands left unanswered on one process
MaxKeys == 3    \* keystrokes sent during one wait that is followed step by step

(***************************************************************************)
(* Tokens and strings.                                                     *)
(***************************************************************************)
None == <<"<None>">>
NL == "\r\n"
PROMPT == "sis>"
MORE == "--More--(50%)"
Whitespace == {" ", NL}

RECURSIVE lstrip(_)
lstrip(t) ==
    IF t # <<>> /\ Head(t) \in Whitespace THEN lstrip(Tail(t)) ELSE t

RECURSIVE rstrip(_)
rstrip(t) ==
    IF t # <<>> /\ t[Len(t)] \in Whitespace THEN rstrip(SubSeq(t, 1, Len(t) - 1)) ELSE t

\* str.strip()
strip(t) == rstrip(lstrip(t))

startswith(t, prefix) ==
    Len(prefix) <= Len(t) /\ SubSeq(t, 1, Len(prefix)) = prefix

removeprefix(string, prefix) ==
    IF startswith(string, prefix)
    THEN SubSeq(string, Len(prefix) + 1, Len(string))
    ELSE string

\* the index of the first token of t that is in S, 0 when there is none
RECURSIVE find(_, _, _)
find(t, S, i) ==
    IF i > Len(t) THEN 0
    ELSE IF t[i] \in S THEN i
    ELSE find(t, S, i + 1)

\* str.split("\r\n")
RECURSIVE split(_)
split(t) ==
    LET i == find(t, {NL}, 1) IN
    IF i = 0 THEN <<t>>
    ELSE <<SubSeq(t, 1, i - 1)>> \o split(SubSeq(t, i + 1, Len(t)))

\* "\r\n".join(v)
RECURSIVE join(_)
join(v) ==
    IF v = <<>> THEN <<>>
    ELSE IF Len(v) = 1 THEN v[1]
    ELSE v[1] \o <<NL>> \o join(Tail(v))

\* an error string with a context prefixed to it
Prefixed(context, error) == <<context>> \o error

RECURSIVE PrefixAll(_, _)
PrefixAll(context, errors) ==
    IF errors = <<>> THEN <<>>
    ELSE <<Prefixed(context, Head(errors))>> \o PrefixAll(context, Tail(errors))

(***************************************************************************)
(* wait_end_command.  A stream is what the child writes from the moment    *)
(* the wait starts: data, the tokens it writes, and end, what follows      *)
(* them: "eof" when the child closes its side, "silent" when nothing more  *)
(* arrives and the wait budget expires.                                    *)
(*                                                                         *)
(* expect() returns at the first prompt or pagination marker of the        *)
(* buffer, with the text before it.  The loop below is the while loop of   *)
(* the method: it carries the output accumulated so far, whether a         *)
(* pagination marker was seen, and the number of keystrokes sent.          *)
(***************************************************************************)
RECURSIVE expect_loop(_, _, _, _, _)
expect_loop(buffer, end, output, paginated, keys) ==
    LET i == find(buffer, {PROMPT, MORE}, 1) IN
    IF i = 0 THEN
        [raised |-> IF end = "eof" THEN "EOF" ELSE "TIMEOUT",
         output |-> output \o buffer, paginated |-> paginated, keys |-> keys]
    ELSE
        LET page == SubSeq(buffer, 1, i - 1)
            rest == SubSeq(buffer, i + 1, Len(buffer))
        IN  IF buffer[i] = PROMPT THEN
                [raised |-> "no", output |-> output \o page,
                 paginated |-> paginated, keys |-> keys]
            ELSE expect_loop(rest, end, output \o page, TRUE, keys + 1)

\* what wait_end_command returns once the loop has ended: after the break, or
\* in one of the two except clauses
wait_returned(loop, t_command) ==
    LET \* the echoed command line is dropped from a paginated output
        output(v_output) ==
            IF loop.paginated /\ Len(v_output) > 1 /\ strip(v_output[1]) = t_command
            THEN join(Tail(v_output))
            ELSE loop.output
    IN  CASE loop.raised = "no" ->
                [success |-> TRUE, errors |-> <<>>,
                 stdout |-> output(split(loop.output)),
                 keys |-> loop.keys, raised |-> "no"]
          [] loop.raised = "TIMEOUT" ->
                [success |-> FALSE, errors |-> << <<"WAIT_END_COMMAND_TIMEOUT">> >>,
                 stdout |-> None, keys |-> loop.keys, raised |-> "TIMEOUT"]
          [] loop.raised = "EOF" ->
                [success |-> TRUE, errors |-> <<>>, stdout |-> None,
                 keys |-> loop.keys, raised |-> "EOF"]

wait_end_command(stream, t_command) ==
    wait_returned(expect_loop(stream.data, stream.end, <<>>, FALSE, 0), t_command)

(***************************************************************************)
(* The session.  self is the record of the object's fields, together with  *)
(* the processes it has spawned and the log of what it wrote to them.      *)
(* Every method is an operator from self and the behaviour of the          *)
(* environment during the call to the new self and the returned envelope.  *)
(***************************************************************************)
NoPath == None

Envelope(success, errors, stdout) ==
    [success |-> success, errors |-> errors, warnings |-> <<>>, stdout |-> stdout]

\* None as the value of the key "output", whose other values are records
NoOutput == [none |-> TRUE]

\* the call did not return: the exception exc left it
Raise(exc) == [raised |-> exc]

\* r is the outcome of a call that an exception left
Raised(r) == "raised" \in DOMAIN r.res

\* self.sis.sendline(line): the line reaches the process unless the handle
\* was closed; busy tells whether that process, alive, still owed the prompt
\* of an earlier line
sendline(self, line) ==
    IF self.closed THEN self
    ELSE [self EXCEPT !.sent = Append(@, [kind |-> "line", proc |-> self.sis, line |-> line,
                                          busy |-> self.pending > 0 /\ self.sis \in self.alive]),
                      !.pending = @ + 1]

\* self.sis.send(" "), n times
RECURSIVE send_space(_, _)
send_space(self, n) ==
    IF n = 0 THEN self
    ELSE send_space([self EXCEPT !.sent = Append(@, [kind |-> "key", proc |-> self.sis,
                                                     line |-> <<" ">>, busy |-> FALSE])],
                    n - 1)

\* the effect on the owned process of a wait that consumed the stream
waited(self, w) ==
    [send_space(self, w.keys) EXCEPT
        !.pending = IF w.raised = "no" /\ @ > 0 THEN @ - 1 ELSE @,
        !.alive = IF w.raised = "EOF" /\ ~self.closed THEN @ \ {self.sis} ELSE @]

\* start(), the branch taken when the session is not running: spawn is what
\* pexpect.spawn('sis') does: it fails, or it creates a process that writes
\* spawn.stream
start_spawn(self, spawn) ==
    IF ~spawn.ok THEN
        [self |-> self,
         res |-> Envelope(FALSE, << <<"START_SPAWN_FAILURE">> >>, None)]
    ELSE
        LET id == self.nspawned + 1
            spawned == [self EXCEPT !.sis = id, !.nspawned = id, !.alive = @ \cup {id},
                                    !.pending = 0, !.closed = FALSE]
            returned(s1, wait_res) ==
                IF wait_res.success THEN
                    [self |-> [s1 EXCEPT !.started = TRUE],
                     res |-> Envelope(TRUE, <<>>, wait_res.stdout)]
                ELSE
                    [self |-> s1,
                     res |-> Envelope(FALSE, PrefixAll("START_WAIT", wait_res.errors), None)]
            wait(wait_res) == returned(waited(spawned, wait_res), wait_res)
        IN  wait(wait_end_command(spawn.stream, <<>>))

\* a start() that does not look at self.started
start_always(self, spawn) == start_spawn(self, spawn)

\* start()
start(self, spawn) ==
    IF ~self.started THEN start_spawn(self, spawn)
    ELSE [self |-> self,
          res |-> Envelope(FALSE, << <<"START_ALREADY_RUNNING">> >>, None)]

\* a stop() that closes the connection whether the process is alive or not
stop_closes_always(self, dies) ==
    LET s1 == sendline(self, <<"quit">>)
        gone == [s1 EXCEPT !.alive = @ \ {self.sis}, !.started = FALSE, !.closed = TRUE]
    IN  IF self.sis \notin self.alive \/ dies \in {"quit", "force"} THEN
            [self |-> gone, res |-> Envelope(TRUE, <<>>, None)]
        ELSE
            [self |-> [s1 EXCEPT !.closed = TRUE],
             res |-> Envelope(FALSE, << <<"STOP_COULD_NOT_STOP">> >>, None)]

\* stop(), the branch taken when the session is running: dies is when the
\* process ends: "quit" (it is gone when isalive() is first asked), "force"
\* (close(force=True) ends it) or "never" (it survives both)
stop_running(self, dies) ==
    LET s1 == sendline(self, <<"quit">>)
        gone == [s1 EXCEPT !.alive = @ \ {self.sis}, !.started = FALSE]
    IN  IF self.sis \notin self.alive \/ dies = "quit" THEN
            [self |-> gone, res |-> Envelope(TRUE, <<>>, None)]
        ELSE IF dies = "force" THEN
            [self |-> [gone EXCEPT !.closed = TRUE], res |-> Envelope(TRUE, <<>>, None)]
        ELSE
            [self |-> [s1 EXCEPT !.closed = TRUE],
             res |-> Envelope(FALSE, << <<"STOP_COULD_NOT_STOP">> >>, None)]

\* a stop() that does not look at self.started
stop_always(self, dies) == stop_running(self, dies)

\* a stop() that leaves self.started as it was
stop_keeps_started(self, dies) ==
    IF self.started
    THEN [stop_running(self, dies) EXCEPT !.self.started = self.started]
    ELSE [self |-> self, res |-> Envelope(FALSE, << <<"STOP_NOT_RUNNING">> >>, None)]

\* stop()
stop(self, dies) ==
    IF self.started THEN stop_running(self, dies)
    ELSE [self |-> self, res |-> Envelope(FALSE, << <<"STOP_NOT_RUNNING">> >>, None)]

\* a reset() that reports success and leaves the process as it is
reset_keeps_process(self, dies, spawn) ==
    [self |-> self, res |-> Envelope(self.started, <<>>, None)]

\* a reset() that calls start() whatever stop() returned
reset_always_starts(self, dies, spawn) ==
    LET returned(stop_res, start_res) ==
            IF stop_res.res.success /\ start_res.res.success THEN
                [self |-> start_res.self, res |-> Envelope(TRUE, <<>>, start_res.res.stdout)]
            ELSE IF stop_res.res.success THEN
                [self |-> start_res.self,
                 res |-> Envelope(FALSE, PrefixAll("RESET_START_STEP", start_res.res.errors),
                                  None)]
            ELSE
                [self |-> start_res.self,
                 res |-> Envelope(FALSE, PrefixAll("RESET_STOP_STEP", stop_res.res.errors),
                                  None)]
        stopped(stop_res) == returned(stop_res, start(stop_res.self, spawn))
    IN  stopped(stop(self, dies))

\* reset()
reset(self, dies, spawn) ==
    LET restarted(start_res) ==
            IF start_res.res.success THEN
                [self |-> start_res.self, res |-> Envelope(TRUE, <<>>, start_res.res.stdout)]
            ELSE
                [self |-> start_res.self,
                 res |-> Envelope(FALSE, PrefixAll("RESET_START_STEP", start_res.res.errors),
                                  None)]
        stopped(stop_res) ==
            IF stop_res.res.success THEN restarted(start(stop_res.self, spawn))
            ELSE
                [self |-> stop_res.self,
                 res |-> Envelope(FALSE, PrefixAll("RESET_STOP_STEP", stop_res.res.errors),
                                  None)]
    IN  stopped(stop(self, dies))

\* exec(t_command) once wait_end_command has returned wait_res
exec_returned(s1, t_command, wait_res) ==
    IF wait_res.success THEN
        LET stdout == IF wait_res.stdout # None
                      THEN strip(removeprefix(strip(wait_res.stdout), t_command))
                      ELSE None
            quits == wait_res.stdout = None
                     /\ strip(t_command) \in {<<"quit">>, <<"exit">>}
        IN  [self |-> [s1 EXCEPT !.started = IF quits THEN FALSE ELSE @],
             res |-> Envelope(TRUE, <<>>, IF stdout = <<>> THEN None ELSE stdout)]
    ELSE
        [self |-> s1,
         res |-> Envelope(FALSE, PrefixAll("EXEC_WAIT", wait_res.errors), None)]

\* exec(t_command), the branch taken when the session is running: stream is
\* what the child writes after the command line
exec_running(self, t_command, stream) ==
    LET wait(s1, wait_res) == exec_returned(waited(s1, wait_res), t_command, wait_res)
    IN  wait(sendline(self, strip(t_command)), wait_end_command(stream, t_command))

\* an exec() that does not look at self.started
exec_always(self, t_command, stream) == exec_running(self, t_command, stream)

\* an exec() that marks the session as having read something
exec_marks_read(self, t_command, stream) ==
    IF self.started
    THEN [exec_running(self, t_command, stream) EXCEPT !.self.readsomething = TRUE]
    ELSE [self |-> self, res |-> Envelope(FALSE, << <<"EXEC_NOT_RUNNING">> >>, None)]

\* an exec() that takes the session for stopped when its wait fails
exec_gives_up(self, t_command, stream) ==
    LET returned(r) == IF r.res.success THEN r ELSE [r EXCEPT !.self.started = FALSE]
    IN  IF self.started THEN returned(exec_running(self, t_command, stream))
        ELSE [self |-> self, res |-> Envelope(FALSE, << <<"EXEC_NOT_RUNNING">> >>, None)]

\* exec(t_command)
exec(self, t_command, stream) ==
    IF self.started THEN exec_running(self, t_command, stream)
    ELSE [self |-> self, res |-> Envelope(FALSE, << <<"EXEC_NOT_RUNNING">> >>, None)]

\* manage_errors(t_output)
manage_errors(t_output) ==
    IF find(t_output, {"must give F or R, but not both"}, 1) # 0
    THEN t_output \o <<" (use maxterms, zeros, or minterms, ones, to describe the function)">>
    ELSE t_output

\* the for loop of read_blif over the lines of the command's output
RECURSIVE read_messages(_, _)
read_messages(messages, acc) ==
    IF messages = <<>> THEN acc
    ELSE LET message == strip(Head(messages)) IN
         IF startswith(message, <<"Warning: ">>)
         THEN read_messages(Tail(messages),
                            [acc EXCEPT !.warnings = Append(@, manage_errors(message))])
         ELSE read_messages(Tail(messages),
                            [acc EXCEPT !.errors = Append(@, manage_errors(message)),
                                        !.found_errors = TRUE])

\* os.path.realpath, os.path.dirname, os.path.isfile and os.path.isdir: the
\* file system of the model is the directory /abs/ with the files and.blif
\* and and.eqn
realpath(t_file) == <<"/abs/">> \o t_file
dirname(path) == SubSeq(path, 1, Len(path) - 1)
isfile(path) == path \in {realpath(<<"and.blif">>), realpath(<<"and.eqn">>)}
isdir(path) == path = <<"/abs/">>

\* the command line read_blif sends
read_blif_command(blif_fullpath, t_append) ==
    IF t_append
    THEN <<"read_blif", " ", "-a", " ", "\"">> \o blif_fullpath \o <<"\"">>
    ELSE <<"read_blif", " ", "\"">> \o blif_fullpath \o <<"\"">>

\* read_blif(t_file, t_changedir, t_append)
read_blif(self, t_file, t_changedir, t_append, dies, spawn, stream) ==
    LET blif_fullpath == realpath(t_file)
        read(s2) == [s2 EXCEPT !.readsomething = TRUE, !.read_path = blif_fullpath]
        parsed(exec_res, m) ==
            [self |-> IF m.found_errors THEN exec_res.self ELSE read(exec_res.self),
             res |-> [success |-> ~m.found_errors, errors |-> m.errors,
                      warnings |-> m.warnings, stdout |-> exec_res.res.stdout]]
        executed(exec_res) ==
            IF exec_res.res.success THEN
                IF exec_res.res.stdout \notin {None, <<>>} THEN
                    parsed(exec_res,
                           read_messages(split(exec_res.res.stdout),
                                         [warnings |-> <<>>, errors |-> <<>>,
                                          found_errors |-> FALSE]))
                ELSE
                    [self |-> read(exec_res.self),
                     res |-> Envelope(TRUE, <<>>, exec_res.res.stdout)]
            ELSE
                [self |-> exec_res.self,
                 res |-> Envelope(FALSE, PrefixAll("READ_BLIF_EXEC", exec_res.res.errors),
                                  None)]
        \* s1 is the session after the reset that t_changedir asks for
        changed(s1) ==
            IF isfile(blif_fullpath) THEN
                executed(exec(s1, read_blif_command(blif_fullpath, t_append), stream))
            ELSE
                [self |-> s1,
                 res |-> Envelope(FALSE,
                                  << <<"READ_BLIF_FILE_DOES_NOT_EXIST">> \o blif_fullpath >>,
                                  None)]
    IN  IF self.started THEN
            IF t_changedir THEN
                \* os.chdir raises when the directory does not exist
                IF isdir(dirname(blif_fullpath))
                THEN changed(reset(self, dies, spawn).self)
                ELSE [self |-> self, res |-> Raise("FileNotFoundError")]
            ELSE changed(self)
        ELSE
            [self |-> self, res |-> Envelope(FALSE, << <<"READ_BLIF_NOT_RUNNING">> >>, None)]

\* the for loop of read_eqn over the lines of the command's output: the
\* dictionary res of read_eqn has no key "warnings", so the first line that
\* starts with "Warning: " ends the loop with a KeyError
RECURSIVE read_eqn_messages(_, _)
read_eqn_messages(messages, acc) ==
    IF messages = <<>> THEN acc
    ELSE IF startswith(strip(Head(messages)), <<"Warning: ">>)
         THEN [acc EXCEPT !.raised = TRUE]
         ELSE read_eqn_messages(Tail(messages),
                                [acc EXCEPT !.errors = Append(@, manage_errors(strip(Head(messages)))),
                                            !.found_errors = TRUE])

\* the command line read_eqn sends
read_eqn_command(eqn_fullpath, t_append) ==
    IF t_append
    THEN <<"read_eqn", " ", "-a", " ", "\"">> \o eqn_fullpath \o <<"\"">>
    ELSE <<"read_eqn", " ", "\"">> \o eqn_fullpath \o <<"\"">>

\* read_eqn(t_file, t_changedir, t_append)
read_eqn(self, t_file, t_changedir, t_append, dies, spawn, stream) ==
    LET eqn_fullpath == realpath(t_file)
        read(s2) == [s2 EXCEPT !.readsomething = TRUE, !.read_path = eqn_fullpath]
        parsed(exec_res, m) ==
            IF m.raised THEN [self |-> exec_res.self, res |-> Raise("KeyError")]
            ELSE [self |-> IF m.found_errors THEN exec_res.self ELSE read(exec_res.self),
                  res |-> [success |-> ~m.found_errors, errors |-> m.errors,
                           stdout |-> exec_res.res.stdout]]
        executed(exec_res) ==
            IF exec_res.res.success THEN
                IF exec_res.res.stdout \notin {None, <<>>} THEN
                    parsed(exec_res,
                           read_eqn_messages(split(exec_res.res.stdout),
                                             [errors |-> <<>>, found_errors |-> FALSE,
                                              raised |-> FALSE]))
                ELSE
                    [self |-> read(exec_res.self),
                     res |-> [success |-> TRUE, errors |-> <<>>,
                              stdout |-> exec_res.res.stdout]]
            ELSE
                [self |-> exec_res.self,
                 res |-> [success |-> FALSE,
                          errors |-> PrefixAll("READ_EQN_EXEC", exec_res.res.errors),
                          stdout |-> None]]
        changed(s1) ==
            IF isfile(eqn_fullpath) THEN
                executed(exec(s1, read_eqn_command(eqn_fullpath, t_append), stream))
            ELSE
                [self |-> s1,
                 res |-> [success |-> FALSE,
                          errors |-> << <<"READ_EQN_FILE_DOES_NOT_EXIST">> \o eqn_fullpath >>,
                          stdout |-> None]]
    IN  IF self.started THEN
            IF t_changedir THEN
                IF isdir(dirname(eqn_fullpath))
                THEN changed(reset(self, dies, spawn).self)
                ELSE [self |-> self, res |-> Raise("FileNotFoundError")]
            ELSE changed(self)
        ELSE
            [self |-> self,
             res |-> [success |-> FALSE, errors |-> << <<"READ_EQN_NOT_RUNNING">> >>,
                      stdout |-> None]]

\* a command line of write_blif and write_eqn with the file before the
\* parameters
write_command_file_first(verb, t_file, t_params) ==
    IF t_file = <<>> /\ t_params = <<>> THEN <<verb>>
    ELSE IF t_params = <<>> THEN <<verb, " ">> \o t_file
    ELSE IF t_file = <<>> THEN <<verb, " ">> \o t_params
    ELSE <<verb, " ">> \o t_file \o <<" ">> \o t_params

\* the command line of write_blif and write_eqn: the verb, then the
\* parameters and the file that are not empty
write_command(verb, t_file, t_params) ==
    IF t_file = <<>> /\ t_params = <<>> THEN <<verb>>
    ELSE IF t_params = <<>> THEN <<verb, " ">> \o t_file
    ELSE IF t_file = <<>> THEN <<verb, " ">> \o t_params
    ELSE <<verb, " ">> \o t_params \o <<" ">> \o t_file

\* write_blif(t_file, t_params) on a running session that has read something
write_blif_exec(self, t_file, t_params, stream) ==
    LET written(exec_res) ==
            IF exec_res.res.success THEN
                IF (t_file = <<>> /\ t_params = <<>>) \/ exec_res.res.stdout = None
                THEN [self |-> exec_res.self, res |-> Envelope(TRUE, <<>>, exec_res.res.stdout)]
                ELSE [self |-> exec_res.self,
                      res |-> Envelope(FALSE, << <<"WRITE_BLIF_WENT_WRONG">> >>,
                                       exec_res.res.stdout)]
            ELSE
                [self |-> exec_res.self,
                 res |-> Envelope(FALSE, PrefixAll("WRITE_BLIF_EXEC", exec_res.res.errors),
                                  exec_res.res.stdout)]
    IN  written(exec(self, write_command("write_blif", t_file, t_params), stream))

\* a write_blif() that takes any output for an error, also when it was asked
\* to print the network
write_blif_no_print(self, t_file, t_params, stream) ==
    LET strict(r) ==
            IF r.res.success /\ r.res.stdout # None
            THEN [self |-> r.self,
                  res |-> Envelope(FALSE, << <<"WRITE_BLIF_WENT_WRONG">> >>, r.res.stdout)]
            ELSE r
    IN  IF ~self.started THEN
            [self |-> self, res |-> Envelope(FALSE, << <<"WRITE_BLIF_NOT_RUNNING">> >>, None)]
        ELSE IF ~self.readsomething THEN
            [self |-> self,
             res |-> Envelope(FALSE, << <<"WRITE_BLIF_NOTHING_TO_WRITE">> >>, None)]
        ELSE strict(write_blif_exec(self, t_file, t_params, stream))

\* a write_blif() that does not look at self.readsomething
write_blif_always(self, t_file, t_params, stream) ==
    IF ~self.started THEN
        [self |-> self, res |-> Envelope(FALSE, << <<"WRITE_BLIF_NOT_RUNNING">> >>, None)]
    ELSE write_blif_exec(self, t_file, t_params, stream)

\* write_blif(t_file, t_params)
write_blif(self, t_file, t_params, stream) ==
    IF ~self.started THEN
        [self |-> self, res |-> Envelope(FALSE, << <<"WRITE_BLIF_NOT_RUNNING">> >>, None)]
    ELSE IF ~self.readsomething THEN
        [self |-> self, res |-> Envelope(FALSE, << <<"WRITE_BLIF_NOTHING_TO_WRITE">> >>, None)]
    ELSE write_blif_exec(self, t_file, t_params, stream)

\* write_eqn(t_file, t_params)
write_eqn(self, t_file, t_params, stream) ==
    LET written(exec_res) ==
            IF exec_res.res.success THEN
                IF (t_file = <<>> /\ t_params = <<>>) \/ exec_res.res.stdout = None
                THEN [self |-> exec_res.self, res |-> Envelope(TRUE, <<>>, exec_res.res.stdout)]
                ELSE [self |-> exec_res.self,
                      res |-> Envelope(FALSE, << <<"WRITE_EQN_WENT_WRONG">> >>,
                                       exec_res.res.stdout)]
            ELSE
                [self |-> exec_res.self,
                 res |-> Envelope(FALSE, PrefixAll("WRITE_EQN_EXEC", exec_res.res.errors),
                                  exec_res.res.stdout)]
    IN  IF ~self.started THEN
            [self |-> self, res |-> Envelope(FALSE, << <<"WRITE_EQN_NOT_RUNNING">> >>, None)]
        ELSE IF ~self.readsomething THEN
            [self |-> self, res |-> Envelope(FALSE, << <<"WRITE_EQN_NOTHING_TO_WRITE">> >>, None)]
        ELSE written(exec(self, write_command("write_eqn", t_file, t_params), stream))

\* script_rugged()
script_rugged(self, stream) ==
    LET executed(exec_res) ==
            IF exec_res.res.success THEN
                [self |-> exec_res.self,
                 res |-> Envelope(exec_res.res.stdout = None, <<>>, exec_res.res.stdout)]
            ELSE
                [self |-> exec_res.self,
                 res |-> Envelope(FALSE, PrefixAll("SCRIPT_RUGGED_EXEC", exec_res.res.errors),
                                  None)]
    IN  IF ~self.started THEN
            [self |-> self, res |-> Envelope(FALSE, << <<"SCRIPT_RUGGED_NOT_RUNNING">> >>, None)]
        ELSE IF ~self.readsomething THEN
            [self |-> self,
             res |-> Envelope(FALSE, << <<"SCRIPT_RUGGED_NOTHING_TO_OPTIMIZE">> >>, None)]
        ELSE executed(exec(self, <<"source", " ", "script.rugged">>, stream))

\* stg_to_network()
stg_to_network(self, stream) ==
    LET executed(exec_res) ==
            IF exec_res.res.success THEN
                [self |-> exec_res.self,
                 res |-> Envelope(exec_res.res.stdout = None, <<>>, exec_res.res.stdout)]
            ELSE
                [self |-> exec_res.self,
                 res |-> Envelope(FALSE, PrefixAll("STG_TO_NETWORK_EXEC", exec_res.res.errors),
                                  None)]
    IN  IF ~self.started THEN
            [self |-> self, res |-> Envelope(FALSE, << <<"STG_TO_NETWORK_NOT_RUNNING">> >>, None)]
        ELSE IF ~self.readsomething THEN
            [self |-> self,
             res |-> Envelope(FALSE, << <<"STG_TO_NETWORK_NOTHING_TO_CONVERT">> >>, None)]
        ELSE executed(exec(self, <<"stg_to_network">>, stream))

\* str.replace(x, "") for every token x of S
RECURSIVE remove(_, _)
remove(t, S) ==
    IF t = <<>> THEN <<>>
    ELSE IF Head(t) \in S THEN remove(Tail(t), S)
    ELSE <<Head(t)>> \o remove(Tail(t), S)

\* the tokens that \d* matches, and int() of them: int("") raises ValueError
Numbers == {"0", "1", "2"}
int(token) == CHOOSE n \in 0..2 : ToString(n) = token

\* the regular expressions of print_stats, on a line without its blanks: each
\* key of keys in order, each followed by the digits it captures ("" for none)
RECURSIVE stats_groups(_, _, _)
stats_groups(t, keys, groups) ==
    IF keys = <<>> THEN [matched |-> t = <<>>, groups |-> groups]
    ELSE IF t = <<>> \/ Head(t) # Head(keys) THEN [matched |-> FALSE, groups |-> groups]
    ELSE IF Len(t) > 1 /\ t[2] \in Numbers
         THEN stats_groups(SubSeq(t, 3, Len(t)), Tail(keys), Append(groups, t[2]))
         ELSE stats_groups(Tail(t), Tail(keys), Append(groups, ""))

StatsKeys == <<"pi=", "po=", "nodes=", "latches=">>

\* minfos: the name (\S*, "" when the line starts with pi=), then the four keys
minfos(infos) ==
    LET t == remove(infos, {" "})
        named == t # <<>> /\ Head(t) # "pi="
    IN  stats_groups(IF named THEN Tail(t) ELSE t, StatsKeys,
                     <<IF named THEN Head(t) ELSE "">>)

\* mlits: the line starts with lits(sop)=, whatever follows its digits
mlits(lits_states) ==
    LET t == remove(lits_states, {" "}) IN
    [matched |-> t # <<>> /\ Head(t) = "lits(sop)=",
     groups |-> <<IF Len(t) > 1 /\ t[2] \in Numbers THEN t[2] ELSE "">>]

\* an mstates that never finds the number of states
mstates_absent(lits_states) == [matched |-> FALSE, groups |-> <<"">>]

\* mstates: #states(STG)= somewhere in the line, and the digits after it
mstates(lits_states) ==
    LET t == remove(lits_states, {" "})
        i == find(t, {"#states(STG)="}, 1)
    IN  [matched |-> i # 0,
         groups |-> <<IF i # 0 /\ Len(t) > i /\ t[i + 1] \in Numbers THEN t[i + 1] ELSE "">>]

\* the body of print_stats once the output has two lines
stats_output(infos, lits_states) ==
    LET parsed(mi, ml, ms) ==
            IF mi.matched /\ ml.matched THEN
                IF \E g \in 2..5 : mi.groups[g] = ""
                   \/ ml.groups[1] = "" \/ (ms.matched /\ ms.groups[1] = "")
                THEN [success |-> FALSE, output |-> NoOutput,
                      errors |-> << <<"PRINT_STATS_NOT_A_NUMBER">> >>]
                ELSE [success |-> TRUE, errors |-> <<>>,
                      output |-> [name |-> mi.groups[1], pi |-> int(mi.groups[2]),
                                  po |-> int(mi.groups[3]), nodes |-> int(mi.groups[4]),
                                  latches |-> int(mi.groups[5]), lits |-> int(ml.groups[1]),
                                  states |-> IF ms.matched THEN int(ms.groups[1]) ELSE 0]]
            ELSE [success |-> FALSE, output |-> NoOutput,
                  errors |-> << <<"PRINT_STATS_OUTPUT_PARSING">> >>]
    IN  parsed(minfos(infos), mlits(lits_states), mstates(lits_states))

\* the dictionary print_stats and simulate return
Report(success, errors, stdout, output) ==
    [success |-> success, errors |-> errors, stdout |-> stdout, output |-> output]

\* print_stats()
print_stats(self, stream) ==
    LET shaped(exec_res, v_stdout) ==
            IF Len(v_stdout) = 2 THEN
                [self |-> exec_res.self,
                 res |-> [stdout |-> exec_res.res.stdout]
                         @@ stats_output(v_stdout[1], v_stdout[2])]
            ELSE
                [self |-> exec_res.self,
                 res |-> Report(FALSE, << <<"PRINT_STATS_EXECUTION">> >>,
                                exec_res.res.stdout, NoOutput)]
        executed(exec_res) ==
            IF exec_res.res.success THEN
                \* exec_res["stdout"].strip() on None
                IF exec_res.res.stdout = None
                THEN [self |-> exec_res.self, res |-> Raise("AttributeError")]
                ELSE shaped(exec_res, split(strip(exec_res.res.stdout)))
            ELSE
                [self |-> exec_res.self,
                 res |-> Report(FALSE, PrefixAll("PRINT_STATS_EXEC", exec_res.res.errors),
                                None, NoOutput)]
    IN  IF ~self.started THEN
            [self |-> self,
             res |-> Report(FALSE, << <<"PRINT_STATS_NOT_RUNNING">> >>, None, NoOutput)]
        ELSE IF ~self.readsomething THEN
            [self |-> self,
             res |-> Report(FALSE, << <<"PRINT_STATS_NOTHING_READ">> >>, None, NoOutput)]
        ELSE executed(exec(self, <<"print_stats">>, stream))

\* "".join([char + " " for char in inputs if char in ["0", "1"]]).strip()
RECURSIVE spaced(_)
spaced(chars) ==
    IF chars = <<>> THEN <<>>
    ELSE IF Len(chars) = 1 THEN chars
    ELSE <<Head(chars), " ">> \o spaced(Tail(chars))

simulate_command(inputs) == <<"simulate", " ">> \o spaced(remove(inputs, {" "}))

\* a shape told by the number of lines alone
simulate_shape_by_count(v_stdout) ==
    IF Len(v_stdout) = 3 THEN "network"
    ELSE IF Len(v_stdout) = 7 THEN "stg"
    ELSE "other"

\* the shape simulate finds in the lines of the response: the simulation of a
\* network, of a network with an STG, or anything else
simulate_shape(v_stdout) ==
    IF Len(v_stdout) = 3 /\ v_stdout[1] = <<"Network simulation:">> THEN "network"
    ELSE IF Len(v_stdout) = 7 /\ v_stdout[1] = <<"Network simulation:">>
            /\ v_stdout[5] = <<"STG simulation:">> THEN "stg"
    ELSE "other"

\* "simulate network: network has {} inputs;".format(n) in line
has_inputs_diagnostic(line, n) ==
    \E i \in 1..(Len(line) - 4) :
        SubSeq(line, i, i + 4) =
            <<"simulate network: network has", " ", ToString(n), " ", "inputs;">>

\* simulate(inputs) once the inputs are accepted: stats is what the child
\* writes after the print_stats that simulate sends when it does not find a
\* simulation in the response
simulate_exec(self, inputs, stream, stats) ==
    LET outputs(line) == strip(remove(line, {"Outputs:", " "}))
        next_state(line) == strip(remove(line, {"Next state:"}))
        \* stats["output"]["pi"] on the result of print_stats()
        checked(stdout, v_stdout, stats_res) ==
            IF Raised(stats_res) THEN stats_res
            ELSE IF stats_res.res.output = NoOutput THEN
                [self |-> stats_res.self, res |-> Raise("TypeError")]
            ELSE IF has_inputs_diagnostic(v_stdout[1], stats_res.res.output.pi) THEN
                [self |-> stats_res.self, res |-> Report(FALSE, <<v_stdout[1]>>, stdout, NoOutput)]
            ELSE
                [self |-> stats_res.self,
                 res |-> Report(FALSE, << <<"SIMULATE_WENT_WRONG">> >>, stdout, NoOutput)]
        shaped(exec_res, v_stdout) ==
            IF simulate_shape(v_stdout) = "network" THEN
                [self |-> exec_res.self,
                 res |-> Report(TRUE, <<>>, exec_res.res.stdout,
                                [outputs |-> outputs(v_stdout[2]),
                                 next_state |-> next_state(v_stdout[3])])]
            ELSE IF simulate_shape(v_stdout) = "stg" THEN
                [self |-> exec_res.self,
                 res |-> Report(TRUE, <<>>, exec_res.res.stdout,
                                [outputs |-> outputs(v_stdout[2]),
                                 next_state |-> next_state(v_stdout[3]),
                                 stg_outputs |-> outputs(v_stdout[6]),
                                 stg_next_state |-> next_state(v_stdout[7])])]
            ELSE checked(exec_res.res.stdout, v_stdout, print_stats(exec_res.self, stats))
        executed(exec_res) ==
            IF exec_res.res.success THEN
                \* exec_res["stdout"].strip() on None
                IF exec_res.res.stdout = None
                THEN [self |-> exec_res.self, res |-> Raise("AttributeError")]
                ELSE shaped(exec_res, split(strip(exec_res.res.stdout)))
            ELSE
                [self |-> exec_res.self,
                 res |-> Report(FALSE, PrefixAll("SIMULATE_EXEC", exec_res.res.errors),
                                exec_res.res.stdout, NoOutput)]
    IN  executed(exec(self, simulate_command(inputs), stream))

\* a simulate() that accepts any character
simulate_unchecked(self, inputs, stream, stats) ==
    IF ~self.started THEN
        [self |-> self, res |-> Report(FALSE, << <<"SIMULATE_NOT_RUNNING">> >>, None, NoOutput)]
    ELSE IF ~self.readsomething THEN
        [self |-> self, res |-> Report(FALSE, << <<"SIMULATE_NOTHING_READ">> >>, None, NoOutput)]
    ELSE simulate_exec(self, inputs, stream, stats)

\* simulate(inputs)
simulate(self, inputs, stream, stats) ==
    IF ~self.started THEN
        [self |-> self, res |-> Report(FALSE, << <<"SIMULATE_NOT_RUNNING">> >>, None, NoOutput)]
    ELSE IF ~self.readsomething THEN
        [self |-> self, res |-> Report(FALSE, << <<"SIMULATE_NOTHING_READ">> >>, None, NoOutput)]
    ELSE IF \E i \in DOMAIN inputs : inputs[i] \notin {"0", "1", " "} THEN
        [self |-> self, res |-> Report(FALSE, << <<"SIMULATE_INVALID_INPUTS">> >>, None, NoOutput)]
    ELSE simulate_exec(self, inputs, stream, stats)

(***************************************************************************)
(* The child process.  What it writes is not decided by the wrapper: the   *)
(* sets below are the behaviours the model draws from.                     *)
(***************************************************************************)
Quit == {<<"quit">>, <<"exit">>}

NoStream == [data |-> <<>>, end |-> "none"]
Closed == [data |-> <<>>, end |-> "eof"]

\* the pty echoes the line it was sent
EchoOf(t_command) == strip(t_command) \o <<NL>>

StreamOf(echo, body, ending) ==
    [data |-> echo \o body \o (IF ending = "prompt" THEN <<PROMPT>> ELSE <<>>),
     end |-> IF ending = "eof" THEN "eof" ELSE "silent"]

Endings == {"prompt", "eof", "silent"}

\* the text a response starts with: nothing, a line, a line that starts with
\* the word of the command "help"
Firsts == {<<>>, <<"out", NL>>, <<"help", " ", "out", NL>>}

\* a response of m + 1 pages: first, then a pagination marker and page j for
\* j = 2 .. m + 1
RECURSIVE MorePages(_, _)
MorePages(j, m) ==
    IF j > m + 1 THEN <<>>
    ELSE <<MORE, "page", ToString(j), NL>> \o MorePages(j + 1, m)

Bodies == {first \o MorePages(2, m) : first \in Firsts, m \in 0..MaxMore}

\* SIS leaves on quit and exit: it prints a prompt after one only when the
\* prompt is the late answer to an earlier command
CanPrompt(self, t_command) == self.pending > 0 \/ strip(t_command) \notin Quit

\* what the wait may read after t_command was sent: nothing but the end of the
\* stream from a process that is gone or a handle that was closed
Responses(self, t_command, bodies, endings) ==
    IF self.sis \notin self.alive \/ self.closed THEN {Closed}
    ELSE {StreamOf(EchoOf(t_command), body, ending) :
            body \in bodies,
            ending \in {e \in endings : e = "prompt" => CanPrompt(self, t_command)}}

\* what pexpect.spawn('sis') may do: fail, or create a process that prints a
\* banner and the prompt, or hangs, or dies at once
NoSpawn == [ok |-> FALSE, stream |-> NoStream]
Banner == <<"UC Berkeley, SIS 1.3", NL>>
Healthy == [ok |-> TRUE, stream |-> StreamOf(<<>>, Banner, "prompt")]
Spawns ==
    {NoSpawn} \cup {[ok |-> TRUE, stream |-> StreamOf(<<>>, Banner, ending)] : ending \in Endings}

Deaths == {"quit", "force", "never"}

\* the arguments of the calls
ExecCommands == {<<"help">>, <<"help", " ">>, <<"quit">>, <<" ", "exit">>}
Files == {<<"and.blif">>, <<"missing.blif">>, <<"nodir/", "missing.blif">>}
EqnFiles == {<<"and.eqn">>, <<"missing.eqn">>}
WriteFiles == {<<>>, <<"out.blif">>}
WriteParams == {<<>>, <<"-s">>}

\* what a command that prints nothing when it goes well may print
Residues == {<<>>, <<"out", NL>>}

\* what print_stats may print: nothing, the two lines of a network, one line,
\* two lines without the number of inputs, the two lines of a state machine,
\* two lines the second of which is not the line of the literals
GoodStats == <<"and", " ", "pi=", "2", " ", "po=", "1", " ", "nodes=", "1", " ",
               "latches=", "0", NL, "lits(sop)=", "2", NL>>
StatsBodies ==
    {<<>>, GoodStats, <<"out", NL>>,
     <<"and", " ", "pi=", " ", "po=", "1", " ", "nodes=", "1", " ", "latches=", "0", NL,
       "lits(sop)=", "2", NL>>,
     <<"fsm", " ", "pi=", "1", " ", "po=", "1", " ", "nodes=", "2", " ", "latches=", "1", NL,
       "lits(sop)=", "2", " ", "#states(STG)=", "2", NL>>,
     <<"and", " ", "pi=", "2", " ", "po=", "1", " ", "nodes=", "1", " ", "latches=", "0", NL,
       "out", NL>>}

\* the arguments of simulate and what it may print: nothing, the simulation
\* of a network, of a network with an STG, the diagnostic about the number of
\* inputs, a line, three lines under another header
SimulateInputs == {<<"1", " ", "0">>, <<"1">>, <<"x">>, <<"1", "0", "2", "x">>}
NetworkSimulation == <<"Network simulation:", NL, "Outputs:", " ", "1", NL, "Next state:", " ", NL>>
SimulateBodies ==
    {<<>>,
     NetworkSimulation,
     NetworkSimulation \o <<NL, "STG simulation:", NL, "Outputs:", " ", "1", NL,
                            "Next state:", " ", "s0", NL>>,
     <<"simulate network: network has", " ", "2", " ", "inputs;", " ", "1", " ",
       "values were supplied.", NL>>,
     <<"out", NL>>,
     <<"out", NL, "Outputs:", " ", "1", NL, "Next state:", " ", NL>>}

ReadBodies ==
    {<<>>, <<"Warning: ", "w", NL>>, <<"err", NL>>, <<"Warning: ", "w", NL, NL, "Warning: ", "w", NL>>}

(***************************************************************************)
(* The workflows and parsed_exec call several commands in a row.  The child *)
(* answers each of them in one of these ways: "good" (what the command      *)
(* prints when it goes well, then the prompt), "empty" (the prompt alone),   *)
(* "out" (a line, then the prompt), "silent" (no prompt in time), "eof".     *)
(***************************************************************************)
Answer(self, t_command, a) ==
    IF self.sis \notin self.alive \/ self.closed THEN Closed
    ELSE StreamOf(EchoOf(t_command),
                  CASE a = "good" -> IF t_command = <<"print_stats">> THEN GoodStats ELSE <<>>
                    [] a = "out" -> <<"out", NL>>
                    [] OTHER -> <<>>,
                  CASE a = "silent" -> "silent"
                    [] a = "eof" -> "eof"
                    [] OTHER -> "prompt")

\* the environment of a call of parsed_exec: of the method it dispatches to
NoEnv == [dies |-> "quit", spawn |-> Healthy, stream |-> NoStream, stats |-> NoStream,
          answers |-> <<>>]

RECURSIVE parsed_exec(_, _, _)

\* the dictionary a workflow returns
Workflow(success, output, errors, stdout) ==
    [success |-> success, output |-> output, errors |-> errors, stdout |-> stdout]

\* newfile_fullpath.format(name): the directory of read_path and the name of
\* its file, the suffix ".blif" replaced by ".<name>.blif"
removesuffix(name, suffix) ==
    IF name = "and.blif" /\ suffix = ".blif" THEN "and" ELSE name

newfile_fullpath(path, name) ==
    dirname(path) \o <<removesuffix(path[Len(path)], ".blif"), ".", name, ".blif">>

\* the command line a step of a workflow sends
step_command(step, path) ==
    CASE step.call = "print_stats" -> <<"print_stats">>
      [] step.call = "parsed_exec" -> step.command
      [] step.call = "write_blif" ->
            write_command("write_blif", newfile_fullpath(path, step.name), <<>>)
      [] OTHER -> <<>>

\* a workflow that adds the errors of a step and keeps its own success
step_result_keeps_success(acc, step, cmd_res) ==
    [acc EXCEPT !.errors = acc.errors \o cmd_res.errors]

\* what a workflow does with the result of a step: the result of a
\* write_blif is dropped, the others are added to res
step_result(acc, step, cmd_res) ==
    IF step.call = "write_blif" THEN acc
    ELSE Workflow(acc.success /\ cmd_res.success,
                  IF step.call = "print_stats" /\ cmd_res.output # NoOutput
                  THEN (step.tag :> cmd_res.output) @@ acc.output
                  ELSE acc.output,
                  acc.errors \o cmd_res.errors,
                  acc.stdout \o <<"sis> ">> \o step.command \o <<"\n">>
                  \o (IF cmd_res.stdout \notin {None, <<>>}
                      THEN <<"\n">> \o cmd_res.stdout \o <<"\n">> ELSE <<>>))

\* the call a step of a workflow makes, stream being what the child answers
step_call(self, step, stream) ==
    CASE step.call = "print_stats" -> print_stats(self, stream)
      [] step.call = "parsed_exec" ->
            parsed_exec(self, step.command, [NoEnv EXCEPT !.stream = stream])
      [] step.call = "write_blif" ->
            write_blif(self, newfile_fullpath(self.read_path, step.name), <<>>, stream)
      [] OTHER ->
            [self |-> self,
             res |-> Envelope(FALSE, << <<"BSISSCRIPT_LGATE_NO_LIBRARY">> >>, None)]

\* the steps of a workflow, one after the other: answers[i] is how the child
\* answers the command of step i
RECURSIVE workflow_steps(_, _, _, _)
workflow_steps(self, steps, answers, acc) ==
    IF steps = <<>> THEN [self |-> self, res |-> acc]
    ELSE
        LET returned(step, r) ==
                IF Raised(r) THEN r
                ELSE workflow_steps(r.self, Tail(steps), Tail(answers),
                                    step_result(acc, step, r.res))
            called(step) ==
                returned(step,
                         step_call(self, step,
                                   Answer(self, step_command(step, self.read_path),
                                          Head(answers))))
        IN  called(Head(steps))

PrintStatsStep(tag) == [call |-> "print_stats", tag |-> tag, command |-> <<"print_stats">>]
ParsedExecStep(command) == [call |-> "parsed_exec", command |-> command]
WriteBlifStep(name) == [call |-> "write_blif", name |-> name]

MapCommand(opt_area) ==
    IF opt_area THEN <<"map", " ", "-m", " ", "0", " ", "-W", " ", "-s">>
    ELSE <<"map", " ", "-n", " ", "1", " ", "-W", " ", "-s">>

\* steps of bsisscript_fsm that reduce the depth for the area as well
fsm_steps_depth_always(autoencoding, opt_area) ==
    <<PrintStatsStep("1_initial_stats"),
      ParsedExecStep(<<"state_minimize", " ", "stamina">>),
      ParsedExecStep(IF autoencoding THEN <<"state_assign", " ", "jedi">>
                     ELSE <<"stg_to_network">>),
      PrintStatsStep("2_optimized_states"),
      WriteBlifStep("state_min_encoding"),
      ParsedExecStep(<<"reduce_depth">>),
      PrintStatsStep("3_reduce_depth_stats"),
      ParsedExecStep(<<"source", " ", "script.rugged">>),
      PrintStatsStep("4_rugged_stats"),
      WriteBlifStep("optimized"),
      ParsedExecStep(<<"read_library", " ", "synch.genlib">>),
      ParsedExecStep(MapCommand(opt_area)),
      PrintStatsStep("5_map_stats"),
      WriteBlifStep("mapped")>>

\* the steps of bsisscript_fsm, in the order of the code
fsm_steps(autoencoding, opt_area) ==
    <<PrintStatsStep("1_initial_stats"),
      ParsedExecStep(<<"state_minimize", " ", "stamina">>),
      ParsedExecStep(IF autoencoding THEN <<"state_assign", " ", "jedi">>
                     ELSE <<"stg_to_network">>),
      PrintStatsStep("2_optimized_states"),
      WriteBlifStep("state_min_encoding")>>
    \o (IF opt_area THEN <<>>
        ELSE <<ParsedExecStep(<<"reduce_depth">>), PrintStatsStep("3_reduce_depth_stats")>>)
    \o <<ParsedExecStep(<<"source", " ", "script.rugged">>),
         PrintStatsStep("4_rugged_stats"),
         WriteBlifStep("optimized"),
         ParsedExecStep(<<"read_library", " ", "synch.genlib">>),
         ParsedExecStep(MapCommand(opt_area)),
         PrintStatsStep("5_map_stats"),
         WriteBlifStep("mapped")>>

\* bsisscript_fsm(autoencoding, opt_area)
bsisscript_fsm(self, autoencoding, opt_area, answers) ==
    \* os.path.dirname(self.read_path) on None
    IF self.read_path = None THEN [self |-> self, res |-> Raise("TypeError")]
    ELSE IF ~self.started THEN
        [self |-> self,
         res |-> Workflow(FALSE, <<>>, << <<"BSISSCRIPT_FSM_NOT_RUNNING">> >>, <<>>)]
    ELSE IF ~self.readsomething THEN
        [self |-> self,
         res |-> Workflow(FALSE, <<>>, << <<"BSISSCRIPT_FSM_NOTHING_TO_OPTIMIZE">> >>, <<>>)]
    ELSE workflow_steps(self, fsm_steps(autoencoding, opt_area), answers,
                        Workflow(TRUE, <<>>, <<>>, <<>>))

\* the steps of bsisscript_lgate, in the order of the code
lgate_steps(opt_area, library) ==
    <<PrintStatsStep("1_initial_stats")>>
    \o (IF opt_area THEN <<>>
        ELSE <<ParsedExecStep(<<"reduce_depth">>), PrintStatsStep("2_reduce_depth_stats")>>)
    \o <<ParsedExecStep(<<"source", " ", "script.rugged">>),
         PrintStatsStep("3_rugged_stats"),
         WriteBlifStep("optimized"),
         IF library \in {"synch", "mcnc"}
         THEN ParsedExecStep(<<"read_library", " ", IF library = "synch" THEN "synch.genlib"
                                                                        ELSE "mcnc.genlib">>)
         ELSE [call |-> "no_library", command |-> <<"read_library", " ", library>>],
         ParsedExecStep(MapCommand(opt_area)),
         PrintStatsStep("4_map_stats"),
         WriteBlifStep("mapped")>>

\* bsisscript_lgate(opt_area, library)
bsisscript_lgate(self, opt_area, library, answers) ==
    IF self.read_path = None THEN [self |-> self, res |-> Raise("TypeError")]
    ELSE IF ~self.started THEN
        [self |-> self,
         res |-> Workflow(FALSE, <<>>, << <<"BSISSCRIPT_LGATE_NOT_RUNNING">> >>, <<>>)]
    ELSE IF ~self.readsomething THEN
        [self |-> self,
         res |-> Workflow(FALSE, <<>>, << <<"BSISSCRIPT_LGATE_NOTHING_TO_OPTIMIZE">> >>, <<>>)]
    ELSE workflow_steps(self, lgate_steps(opt_area, library), answers,
                        Workflow(TRUE, <<>>, <<>>, <<>>))

\* bsisscript_fsmd(opt_area)
bsisscript_fsmd(self, opt_area, answers) == bsisscript_lgate(self, opt_area, "synch", answers)

\* the parts of a command line that blanks separate
RECURSIVE words(_)
words(t) ==
    LET i == find(t, {" "}, 1) IN
    IF t = <<>> THEN <<>>
    ELSE IF i = 0 THEN <<t>>
    ELSE IF i = 1 THEN words(Tail(t))
    ELSE <<SubSeq(t, 1, i - 1)>> \o words(SubSeq(t, i + 1, Len(t)))

\* param.strip('"')
RECURSIVE strip_quotes(_)
strip_quotes(t) ==
    IF t # <<>> /\ Head(t) = "\"" THEN strip_quotes(Tail(t))
    ELSE IF t # <<>> /\ t[Len(t)] = "\"" THEN strip_quotes(SubSeq(t, 1, Len(t) - 1))
    ELSE t

Shape(method) ==
    [method |-> method, file |-> <<>>, append |-> FALSE, inputs |-> <<>>,
     autoencoding |-> FALSE, opt_area |-> FALSE, library |-> "synch"]

\* the parameter of bsis_script and the call it stands for
bsis_script_shape(param) ==
    CASE param = <<"fsm_autoencoding_area">> ->
            [Shape("bsisscript_fsm") EXCEPT !.autoencoding = TRUE, !.opt_area = TRUE]
      [] param = <<"fsm_autoencoding_delay">> ->
            [Shape("bsisscript_fsm") EXCEPT !.autoencoding = TRUE]
      [] param = <<"fsm_area">> -> [Shape("bsisscript_fsm") EXCEPT !.opt_area = TRUE]
      [] param = <<"fsm_delay">> -> Shape("bsisscript_fsm")
      [] param = <<"lgate_area_mcnc">> ->
            [Shape("bsisscript_lgate") EXCEPT !.opt_area = TRUE, !.library = "mcnc"]
      [] param = <<"lgate_delay_mcnc">> -> [Shape("bsisscript_lgate") EXCEPT !.library = "mcnc"]
      [] param = <<"lgate_area_synch">> -> [Shape("bsisscript_lgate") EXCEPT !.opt_area = TRUE]
      [] param = <<"lgate_delay_synch">> -> Shape("bsisscript_lgate")
      [] param = <<"fsmd_area">> -> [Shape("bsisscript_fsmd") EXCEPT !.opt_area = TRUE]
      [] param = <<"fsmd_delay">> -> Shape("bsisscript_fsmd")
      [] OTHER -> Shape("unexpected")

\* the chain of regular expressions of parsed_exec on the stripped command:
\* w is its words.  A verb that takes a parameter is matched only when a
\* blank and one word follow it.
parsed_shape(strip_cmd) ==
    LET read(method, w) ==
            IF Len(w) = 3 /\ w[2] = <<"-a">>
            THEN [Shape(method) EXCEPT !.file = strip_quotes(w[3]), !.append = TRUE]
            ELSE IF Len(w) = 3 /\ w[3] = <<"-a">>
            THEN [Shape(method) EXCEPT !.file = strip_quotes(w[2]), !.append = TRUE]
            ELSE IF Len(w) = 2 THEN [Shape(method) EXCEPT !.file = strip_quotes(w[2])]
            ELSE Shape("exec")
        shape(w) ==
            IF w = <<>> THEN Shape("exec")
            ELSE IF w[1] = <<"read_blif">> THEN read("read_blif", w)
            ELSE IF w[1] = <<"read_eqn">> THEN read("read_eqn", w)
            ELSE IF w[1] = <<"write_blif">> /\ Len(w) = 2
            THEN [Shape("write_blif") EXCEPT !.file = strip_quotes(w[2])]
            ELSE IF w[1] = <<"write_eqn">> /\ Len(w) = 2
            THEN [Shape("write_eqn") EXCEPT !.file = strip_quotes(w[2])]
            ELSE IF strip_cmd = <<"source", " ", "script.rugged">> THEN Shape("script_rugged")
            ELSE IF strip_cmd = <<"print_stats">> THEN Shape("print_stats")
            ELSE IF w[1] \in {<<"simulate">>, <<"sim">>} /\ Len(w) >= 2
            THEN [Shape("simulate") EXCEPT !.inputs = lstrip(Tail(strip_cmd))]
            ELSE IF Head(strip_cmd) = "bsis_script"
            THEN bsis_script_shape(strip(remove(strip_cmd, {"bsis_script"})))
            ELSE IF strip_cmd = <<"stg_to_network">> THEN Shape("stg_to_network")
            ELSE Shape("exec")
    IN  shape(words(strip_cmd))

\* parsed_exec(t_command)
parsed_exec(self, t_command, env) ==
    LET call(shape) ==
            CASE shape.method = "read_blif" ->
                    read_blif(self, shape.file, TRUE, shape.append, env.dies, env.spawn,
                              env.stream)
              [] shape.method = "read_eqn" ->
                    read_eqn(self, shape.file, TRUE, shape.append, env.dies, env.spawn,
                             env.stream)
              [] shape.method = "write_blif" -> write_blif(self, shape.file, <<>>, env.stream)
              [] shape.method = "write_eqn" -> write_eqn(self, shape.file, <<>>, env.stream)
              [] shape.method = "script_rugged" -> script_rugged(self, env.stream)
              [] shape.method = "print_stats" -> print_stats(self, env.stream)
              [] shape.method = "simulate" ->
                    simulate(self, shape.inputs, env.stream, env.stats)
              [] shape.method = "bsisscript_fsm" ->
                    bsisscript_fsm(self, shape.autoencoding, shape.opt_area, env.answers)
              [] shape.method = "bsisscript_lgate" ->
                    bsisscript_lgate(self, shape.opt_area, shape.library, env.answers)
              [] shape.method = "bsisscript_fsmd" ->
                    bsisscript_fsmd(self, shape.opt_area, env.answers)
              [] shape.method = "unexpected" ->
                    [self |-> self,
                     res |-> Envelope(FALSE, << <<"BSIS_SCRIPT_UNEXPECTED_PARAMETER">> >>, None)]
              [] shape.method = "stg_to_network" -> stg_to_network(self, env.stream)
              [] shape.method = "exec" -> exec(self, strip(t_command), env.stream)
    IN  call(parsed_shape(strip(t_command)))

(***************************************************************************)
(* The state machine: one action per public method, called in any order.   *)
(***************************************************************************)
Self ==
    [started |-> started, readsomething |-> readsomething, read_path |-> read_path,
     sis |-> sis, nspawned |-> nspawned, alive |-> alive, pending |-> pending,
     closed |-> closed, sent |-> <<>>]

Fields(self) ==
    [started |-> self.started, readsomething |-> self.readsomething,
     read_path |-> self.read_path, sis |-> self.sis, nspawned |-> self.nspawned,
     alive |-> self.alive, pending |-> self.pending, closed |-> self.closed]

NoIo == [command |-> <<>>, file |-> <<>>, params |-> <<>>, changedir |-> FALSE, append |-> FALSE,
         dies |-> "none", spawn |-> [ok |-> FALSE, stream |-> NoStream],
         stream |-> NoStream, stats |-> NoStream, answers |-> <<>>,
         autoencoding |-> FALSE, opt_area |-> FALSE, library |-> "none"]

\* what res holds for the keys the returned dictionary does not have, and
\* raised, "no" when the call returned
NoEnvelope == [raised |-> "no", success |-> FALSE, errors |-> <<>>, warnings |-> <<>>,
               stdout |-> None, output |-> NoOutput]

\* no exec() is being followed step by step
NotWaiting ==
    [pc |-> "idle", buffer |-> <<>>, end |-> "none", output |-> <<>>, paginated |-> FALSE,
     keys |-> 0, raised |-> "no"]

\* the call returned r: the new state, within the bounds of the model
Return(op, r, inputs) ==
    /\ r.self.nspawned <= MaxSpawn
    /\ r.self.pending <= MaxPending
    /\ started' = r.self.started
    /\ readsomething' = r.self.readsomething
    /\ read_path' = r.self.read_path
    /\ sis' = r.self.sis
    /\ nspawned' = r.self.nspawned
    /\ alive' = r.self.alive
    /\ pending' = r.self.pending
    /\ closed' = r.self.closed
    /\ sent' = r.self.sent
    /\ res' = [op |-> op] @@ r.res @@ NoEnvelope
    /\ pre' = Fields(Self)
    /\ prev' = IF res.op = "stop" /\ res.success THEN "stop" ELSE "other"
    /\ io' = inputs
    /\ waiting' = waiting

\* __init__()
New ==
    [started |-> FALSE, readsomething |-> FALSE, read_path |-> NoPath, sis |-> 0,
     nspawned |-> 0, alive |-> {}, pending |-> 0, closed |-> FALSE, sent |-> <<>>]

\* an __init__() that copies the errors of start() as they are
init_copies_errors(spawn) ==
    LET returned(start_res) ==
            [self |-> start_res.self,
             res |-> Envelope(start_res.res.success, start_res.res.errors,
                              start_res.res.stdout)]
    IN  returned(start(New, spawn))

\* __init__()
init(spawn) ==
    LET returned(start_res) ==
            [self |-> start_res.self,
             res |-> IF start_res.res.success
                     THEN Envelope(TRUE, <<>>, start_res.res.stdout)
                     ELSE Envelope(FALSE, PrefixAll("INIT_START_STEP", start_res.res.errors),
                                   None)]
    IN  returned(start(New, spawn))

Init ==
    \E spawn \in Spawns : \E r \in {init(spawn)} :
        /\ started = r.self.started
        /\ readsomething = r.self.readsomething
        /\ read_path = r.self.read_path
        /\ sis = r.self.sis
        /\ nspawned = r.self.nspawned
        /\ alive = r.self.alive
        /\ pending = r.self.pending
        /\ closed = r.self.closed
        /\ sent = r.self.sent
        /\ res = [op |-> "init"] @@ r.res @@ NoEnvelope
        /\ pre = Fields(New)
        /\ prev = "other"
        /\ io = [NoIo EXCEPT !.spawn = spawn]
        /\ waiting = NotWaiting

\* A choice the call never looks at is fixed, so that it is drawn once.
Start ==
    \E spawn \in IF started THEN {Healthy} ELSE Spawns :
        Return("start", start(Self, spawn), [NoIo EXCEPT !.spawn = spawn])

Stop ==
    \E dies \in IF started /\ sis \in alive THEN Deaths ELSE {"quit"} :
        Return("stop", stop(Self, dies), [NoIo EXCEPT !.dies = dies])

Reset ==
    \E dies \in IF started /\ sis \in alive THEN Deaths ELSE {"quit"} :
        \E spawn \in IF stop(Self, dies).res.success THEN Spawns ELSE {Healthy} :
            Return("reset", reset(Self, dies, spawn),
                   [NoIo EXCEPT !.dies = dies, !.spawn = spawn])

Exec ==
    \E t_command \in ExecCommands :
        \E stream \in IF started THEN Responses(Self, t_command, Bodies, Endings)
                      ELSE {NoStream} :
            Return("exec", exec(Self, t_command, stream),
                   [NoIo EXCEPT !.command = t_command, !.stream = stream])

\* What happens around a read of t_file, as <<dies, spawn, stream>>: the reset
\* that t_changedir asks for takes place when the directory of the file
\* exists, and command is answered by the process the session owns after it.
ReadEnv(t_file, t_changedir, command) ==
    LET resets == started /\ t_changedir /\ isdir(dirname(realpath(t_file)))
        streams(s1) ==
            IF s1.started /\ isfile(realpath(t_file)) /\ (t_changedir => resets)
            THEN Responses(s1, command, ReadBodies, {"prompt"})
                 \cup Responses(s1, command, {<<>>}, Endings)
            ELSE {NoStream}
        after(dies, spawn) ==
            {<<dies, spawn, stream>> :
                stream \in streams(IF resets THEN reset(Self, dies, spawn).self ELSE Self)}
        spawns(dies) ==
            IF resets /\ (sis \notin alive \/ dies # "never") THEN Spawns ELSE {Healthy}
    IN  UNION {UNION {after(dies, spawn) : spawn \in spawns(dies)} :
                  dies \in IF resets /\ sis \in alive THEN Deaths ELSE {"quit"}}

ReadBlif ==
    \E t_file \in Files, t_changedir \in BOOLEAN, t_append \in BOOLEAN :
        \E env \in ReadEnv(t_file, t_changedir, read_blif_command(realpath(t_file), t_append)) :
            Return("read_blif",
                   read_blif(Self, t_file, t_changedir, t_append, env[1], env[2], env[3]),
                   [NoIo EXCEPT !.file = t_file, !.changedir = t_changedir,
                                !.append = t_append, !.dies = env[1],
                                !.spawn = env[2], !.stream = env[3]])

ReadEqn ==
    \E t_file \in EqnFiles, t_changedir \in BOOLEAN, t_append \in BOOLEAN :
        \E env \in ReadEnv(t_file, t_changedir, read_eqn_command(realpath(t_file), t_append)) :
            Return("read_eqn",
                   read_eqn(Self, t_file, t_changedir, t_append, env[1], env[2], env[3]),
                   [NoIo EXCEPT !.file = t_file, !.changedir = t_changedir,
                                !.append = t_append, !.dies = env[1],
                                !.spawn = env[2], !.stream = env[3]])

\* the command is sent when the session is running and has read something
Gated(command, bodies) ==
    IF started /\ readsomething THEN Responses(Self, command, bodies, Endings) ELSE {NoStream}

WriteBlif ==
    \E t_file \in WriteFiles, t_params \in WriteParams :
        \E stream \in Gated(write_command("write_blif", t_file, t_params), Residues) :
            Return("write_blif", write_blif(Self, t_file, t_params, stream),
                   [NoIo EXCEPT !.file = t_file, !.params = t_params, !.stream = stream])

WriteEqn ==
    \E t_file \in WriteFiles, t_params \in WriteParams :
        \E stream \in Gated(write_command("write_eqn", t_file, t_params), Residues) :
            Return("write_eqn", write_eqn(Self, t_file, t_params, stream),
                   [NoIo EXCEPT !.file = t_file, !.params = t_params, !.stream = stream])

ScriptRugged ==
    \E stream \in Gated(<<"source", " ", "script.rugged">>, Residues) :
        Return("script_rugged", script_rugged(Self, stream), [NoIo EXCEPT !.stream = stream])

StgToNetwork ==
    \E stream \in Gated(<<"stg_to_network">>, Residues) :
        Return("stg_to_network", stg_to_network(Self, stream), [NoIo EXCEPT !.stream = stream])

PrintStats ==
    \E stream \in Gated(<<"print_stats">>, StatsBodies) :
        Return("print_stats", print_stats(Self, stream), [NoIo EXCEPT !.stream = stream])

\* what happens around simulate(inputs), as <<stream, stats>>: print_stats is
\* sent, after the command, when the response is not a simulation
SimulateEnv(inputs) ==
    LET requeried(exec_res) ==
            IF started /\ readsomething /\ exec_res.res.success /\ exec_res.res.stdout # None
               /\ simulate_shape(split(strip(exec_res.res.stdout))) = "other"
            THEN Responses(exec_res.self, <<"print_stats">>, StatsBodies, Endings)
            ELSE {NoStream}
        after(stream) ==
            {<<stream, stats>> :
                stats \in requeried(exec(Self, simulate_command(inputs), stream))}
    IN  IF \E i \in DOMAIN inputs : inputs[i] \notin {"0", "1", " "}
        THEN {<<NoStream, NoStream>>}
        ELSE UNION {after(stream) : stream \in Gated(simulate_command(inputs), SimulateBodies)}

Simulate ==
    \E inputs \in SimulateInputs :
        \E env \in SimulateEnv(inputs) :
            Return("simulate", simulate(Self, inputs, env[1], env[2]),
                   [NoIo EXCEPT !.command = inputs, !.stream = env[1], !.stats = env[2]])

\* how the child answers the n commands of a workflow: well, or well but for
\* one of them
Deviations == {"empty", "out", "silent", "eof"}

WorkflowAnswers(n) ==
    IF started /\ readsomething /\ read_path # None
    THEN {[i \in 1..n |-> "good"]}
         \cup {[i \in 1..n |-> IF i = k THEN a ELSE "good"] : k \in 1..n, a \in Deviations}
    ELSE {<<>>}

Libraries == {"synch", "mcnc", "other"}

BsisscriptFsm ==
    \E autoencoding \in BOOLEAN, opt_area \in BOOLEAN :
        \E answers \in WorkflowAnswers(Len(fsm_steps(autoencoding, opt_area))) :
            Return("bsisscript_fsm", bsisscript_fsm(Self, autoencoding, opt_area, answers),
                   [NoIo EXCEPT !.autoencoding = autoencoding, !.opt_area = opt_area,
                                !.answers = answers])

BsisscriptLgate ==
    \E opt_area \in BOOLEAN, library \in Libraries :
        \E answers \in WorkflowAnswers(Len(lgate_steps(opt_area, library))) :
            Return("bsisscript_lgate", bsisscript_lgate(Self, opt_area, library, answers),
                   [NoIo EXCEPT !.opt_area = opt_area, !.library = library,
                                !.answers = answers])

BsisscriptFsmd ==
    \E opt_area \in BOOLEAN :
        \E answers \in WorkflowAnswers(Len(lgate_steps(opt_area, "synch"))) :
            Return("bsisscript_fsmd", bsisscript_fsmd(Self, opt_area, answers),
                   [NoIo EXCEPT !.opt_area = opt_area, !.answers = answers])

\* the command lines given to parsed_exec
ParsedCommands ==
    {<<"read_blif", " ", "and.blif">>, <<"read_blif", " ", "-a", " ", "\"", "and.blif", "\"">>,
     <<"read_blif", " ", "missing.blif", " ", "-a">>,
     <<"read_eqn", " ", "and.eqn">>,
     <<"write_blif", " ", "out.blif">>, <<"write_blif">>,
     <<"write_blif", " ", "-s", " ", "out.blif">>,
     <<"write_eqn", " ", "out.eqn">>, <<"write_eqn">>,
     <<"source", " ", "script.rugged">>, <<"print_stats", " ">>, <<"stg_to_network">>,
     <<"simulate", " ", "1", " ", "0">>, <<"sim", " ", "x">>, <<"simulate">>,
     <<"bsis_script", " ", "fsm_autoencoding_area">>, <<"bsis_script", " ", "fsm_delay">>,
     <<"bsis_script", " ", "lgate_area_mcnc">>, <<"bsis_script", " ", "lgate_delay_synch">>,
     <<"bsis_script", " ", "fsmd_area">>, <<"bsis_script", " ", "fsm">>,
     <<"help">>, <<"quit", " ">>}

\* what happens around parsed_exec(t_command): what happens around the method
\* it calls
ParsedEnv(strip_cmd) ==
    LET streams(S) == {[NoEnv EXCEPT !.stream = stream] : stream \in S}
        workflow(n) == {[NoEnv EXCEPT !.answers = answers] : answers \in WorkflowAnswers(n)}
        env(shape) ==
            CASE shape.method = "read_blif" ->
                    {[NoEnv EXCEPT !.dies = e[1], !.spawn = e[2], !.stream = e[3]] :
                        e \in ReadEnv(shape.file, TRUE,
                                      read_blif_command(realpath(shape.file), shape.append))}
              [] shape.method = "read_eqn" ->
                    {[NoEnv EXCEPT !.dies = e[1], !.spawn = e[2], !.stream = e[3]] :
                        e \in ReadEnv(shape.file, TRUE,
                                      read_eqn_command(realpath(shape.file), shape.append))}
              [] shape.method = "write_blif" ->
                    streams(Gated(write_command("write_blif", shape.file, <<>>), Residues))
              [] shape.method = "write_eqn" ->
                    streams(Gated(write_command("write_eqn", shape.file, <<>>), Residues))
              [] shape.method \in {"script_rugged", "stg_to_network"} ->
                    streams(Gated(strip_cmd, Residues))
              [] shape.method = "print_stats" -> streams(Gated(strip_cmd, StatsBodies))
              [] shape.method = "simulate" ->
                    {[NoEnv EXCEPT !.stream = e[1], !.stats = e[2]] :
                        e \in SimulateEnv(shape.inputs)}
              [] shape.method = "bsisscript_fsm" ->
                    workflow(Len(fsm_steps(shape.autoencoding, shape.opt_area)))
              [] shape.method \in {"bsisscript_lgate", "bsisscript_fsmd"} ->
                    workflow(Len(lgate_steps(shape.opt_area, shape.library)))
              [] shape.method = "unexpected" -> {NoEnv}
              [] shape.method = "exec" ->
                    streams(IF started THEN Responses(Self, strip_cmd, Residues, Endings)
                            ELSE {NoStream})
    IN  env(parsed_shape(strip_cmd))

ParsedExec ==
    \E t_command \in ParsedCommands :
        \E env \in ParsedEnv(strip(t_command)) :
            Return("parsed_exec", parsed_exec(Self, t_command, env),
                   [NoIo EXCEPT !.command = t_command, !.dies = env.dies, !.spawn = env.spawn,
                                !.stream = env.stream, !.stats = env.stats,
                                !.answers = env.answers])

Next == Start \/ Stop \/ Reset \/ Exec \/ ReadBlif

Spec == Init /\ [][Next]_vars

\* Between two calls the caller keeps nothing of the earlier one: Drop forgets
\* the envelope, the log and the inputs of the last call.  In Session every
\* operation of the class is called, each on a session whose last call was
\* dropped.
Idle == res.op = "none"

Drop ==
    /\ ~Idle
    /\ res' = [op |-> "none"] @@ NoEnvelope
    /\ sent' = <<>>
    /\ pre' = Fields(Self)
    /\ prev' = "other"
    /\ io' = NoIo
    /\ UNCHANGED <<started, readsomething, read_path, sis, nspawned, alive, pending, closed,
                   waiting>>

SessionNext ==
    \/ Idle /\ Start
    \/ Idle /\ Stop
    \/ Idle /\ Reset
    \/ Idle /\ Exec
    \/ Idle /\ ReadBlif
    \/ Idle /\ ReadEqn
    \/ Idle /\ WriteBlif
    \/ Idle /\ WriteEqn
    \/ Idle /\ ScriptRugged
    \/ Idle /\ StgToNetwork
    \/ Idle /\ PrintStats
    \/ Idle /\ Simulate
    \/ Idle /\ BsisscriptFsm
    \/ Idle /\ BsisscriptLgate
    \/ Idle /\ BsisscriptFsmd
    \/ Idle /\ ParsedExec
    \/ Drop

Session == Init /\ [][SessionNext]_vars

(***************************************************************************)
(* exec() on a running session, step by step: the line is sent, then every  *)
(* turn of the while loop of wait_end_command is one step, then exec        *)
(* returns.  The child may also answer every keystroke with one more page   *)
(* that ends in a pagination marker, for ever: the stream whose end is      *)
(* "endless".                                                              *)
(***************************************************************************)
Endless(t_command) ==
    [data |-> EchoOf(t_command) \o <<"out", NL, MORE>>, end |-> "endless"]

WaitStreams(t_command) ==
    Responses(Self, t_command, Bodies, Endings)
        \cup (IF sis \in alive /\ ~closed THEN {Endless(t_command)} ELSE {})

\* self.sis.sendline(t_command.strip()) and the entry into wait_end_command
ExecSend ==
    /\ waiting.pc = "idle"
    /\ started
    /\ \E t_command \in ExecCommands : \E stream \in WaitStreams(t_command) :
          \E s1 \in {sendline(Self, strip(t_command))} :
            /\ s1.pending <= MaxPending
            /\ sent' = s1.sent
            /\ pending' = s1.pending
            /\ waiting' = [NotWaiting EXCEPT !.pc = "expect", !.buffer = stream.data,
                                             !.end = stream.end]
            /\ io' = [NoIo EXCEPT !.command = t_command, !.stream = stream]
    /\ pre' = Fields(Self)
    /\ res' = [op |-> "none"] @@ NoEnvelope
    /\ prev' = "other"
    /\ UNCHANGED <<started, readsomething, read_path, sis, nspawned, alive, closed>>

\* exec() on a session that is not running returns at once
ExecNotRunning ==
    /\ waiting.pc = "idle"
    /\ ~started
    /\ \E t_command \in ExecCommands :
          Return("exec", exec(Self, t_command, NoStream), [NoIo EXCEPT !.command = t_command])

\* the first prompt or pagination marker of what the child still writes, 0
\* when there is none
Match == find(waiting.buffer, {PROMPT, MORE}, 1)

Page == SubSeq(waiting.buffer, 1, Match - 1)

Rest == SubSeq(waiting.buffer, Match + 1, Len(waiting.buffer))

\* expect() returns 0: the prompt was found, break
ExpectPrompt ==
    /\ waiting.pc = "expect"
    /\ Match # 0
    /\ waiting.buffer[Match] = PROMPT
    /\ waiting' = [waiting EXCEPT !.pc = "break", !.buffer = Rest, !.output = @ \o Page]
    /\ UNCHANGED <<started, readsomething, read_path, sis, nspawned, alive, pending, closed,
                   res, sent, pre, prev, io>>

\* a turn of the loop that answers the pagination marker with a key it does
\* not send
ExpectMoreSilently ==
    /\ waiting.pc = "expect"
    /\ Match # 0
    /\ waiting.buffer[Match] = MORE
    /\ waiting.keys < MaxKeys
    /\ waiting' = [waiting EXCEPT !.buffer = Rest, !.output = @ \o Page, !.paginated = TRUE,
                                  !.keys = @ + 1]
    /\ UNCHANGED <<started, readsomething, read_path, sis, nspawned, alive, pending, closed,
                   res, sent, pre, prev, io>>

\* a turn of the loop that reads the same pagination marker again
ExpectMoreAgain ==
    /\ waiting.pc = "expect"
    /\ Match # 0
    /\ waiting.buffer[Match] = MORE
    /\ waiting.keys < MaxKeys
    /\ waiting' = [waiting EXCEPT !.paginated = TRUE, !.keys = @ + 1]
    /\ sent' = Append(sent, [kind |-> "key", proc |-> sis, line |-> <<" ">>, busy |-> FALSE])
    /\ UNCHANGED <<started, readsomething, read_path, sis, nspawned, alive, pending, closed,
                   res, pre, prev, io>>

\* expect() returns 1: a pagination marker was found, a space is sent and the
\* loop goes on; an endless child answers the space with one more page
ExpectMore ==
    /\ waiting.pc = "expect"
    /\ Match # 0
    /\ waiting.buffer[Match] = MORE
    /\ waiting.keys < MaxKeys
    /\ waiting' = [waiting EXCEPT
                      !.buffer = IF waiting.end = "endless" /\ Rest = <<>>
                                 THEN <<"out", NL, MORE>> ELSE Rest,
                      !.output = @ \o Page, !.paginated = TRUE, !.keys = @ + 1]
    /\ sent' = Append(sent, [kind |-> "key", proc |-> sis, line |-> <<" ">>, busy |-> FALSE])
    /\ UNCHANGED <<started, readsomething, read_path, sis, nspawned, alive, pending, closed,
                   res, pre, prev, io>>

\* expect() raises TIMEOUT: neither marker came within the wait budget
ExpectTimeout ==
    /\ waiting.pc = "expect"
    /\ Match = 0
    /\ waiting.end = "silent"
    /\ waiting' = [waiting EXCEPT !.pc = "except", !.raised = "TIMEOUT"]
    /\ UNCHANGED <<started, readsomething, read_path, sis, nspawned, alive, pending, closed,
                   res, sent, pre, prev, io>>

\* expect() raises EOF: the stream closed before either marker
ExpectEof ==
    /\ waiting.pc = "expect"
    /\ Match = 0
    /\ waiting.end = "eof"
    /\ waiting' = [waiting EXCEPT !.pc = "except", !.raised = "EOF"]
    /\ UNCHANGED <<started, readsomething, read_path, sis, nspawned, alive, pending, closed,
                   res, sent, pre, prev, io>>

\* wait_end_command returns and exec() returns what it makes of it
ExecReturn ==
    /\ waiting.pc \in {"break", "except"}
    /\ \E wait_res \in {wait_returned(waiting, io.command)} :
        \E r \in {exec_returned(waited([Self EXCEPT !.sent = sent],
                                        [wait_res EXCEPT !.keys = 0]),
                                 io.command, wait_res)} :
            /\ started' = r.self.started
            /\ alive' = r.self.alive
            /\ pending' = r.self.pending
            /\ res' = [op |-> "exec"] @@ r.res @@ NoEnvelope
    /\ waiting' = NotWaiting
    /\ UNCHANGED <<readsomething, read_path, sis, nspawned, closed, sent, pre, prev, io>>

WaitingInit == Init /\ started

WaitingNext ==
    \/ ExecSend
    \/ ExecNotRunning
    \/ ExpectPrompt
    \/ ExpectMore
    \/ ExpectTimeout
    \/ ExpectEof
    \/ ExecReturn

\* the thread that called exec() runs the loop and returns: expect() returns
\* or raises within the wait budget
Waiting ==
    /\ WaitingInit
    /\ [][WaitingNext]_vars
    /\ WF_vars(ExpectPrompt \/ ExpectMore \/ ExpectTimeout \/ ExpectEof)
    /\ WF_vars(ExecReturn)

(***************************************************************************)
(* Properties.  Each is about the state right after an operation returned: *)
(* res is its envelope, pre the session as it was at the call, io the      *)
(* arguments and the child's behaviour, sent what was written meanwhile.   *)
(***************************************************************************)
HasPrompt(stream) == find(stream.data, {PROMPT}, 1) # 0
HasMore(stream) == find(stream.data, {MORE}, 1) # 0

\* the stream closed before any prompt marker
ClosedBeforePrompt(stream) == stream.end = "eof" /\ ~HasPrompt(stream)

\* the stop() that the last stop() or reset() performed on a running session
\* found the process gone, at the first or at the second isalive()
ChildDied == pre.sis \notin pre.alive \/ io.dies \in {"quit", "force"}

\* C1: whenever exec is called while started is false (never started, after
\* stop(), after exec of quit or exit), it returns success = false with the
\* single NotRunning error, writes nothing to any process and changes no field
\* of the session, whatever the command.
C1_ExecNotRunning ==
    (res.op = "exec" /\ ~pre.started) =>
        /\ ~res.success
        /\ res.errors = << <<"EXEC_NOT_RUNNING">> >>
        /\ res.stdout = None
        /\ sent = <<>>
        /\ Fields(Self) = pre

\* an exec refused on a session that stop() has just stopped
C1_Witness ==
    /\ res.op = "exec" /\ prev = "stop" /\ ~pre.started /\ pre.sis # 0
    /\ res.errors = << <<"EXEC_NOT_RUNNING">> >>

\* C2: start() on a running session returns success = false with the single
\* AlreadyRunning error, spawns nothing, and leaves the session running with
\* the process it owned.
C2_StartAlreadyRunning ==
    (res.op = "start" /\ pre.started) =>
        /\ ~res.success
        /\ res.errors = << <<"START_ALREADY_RUNNING">> >>
        /\ nspawned = pre.nspawned
        /\ sis = pre.sis
        /\ alive = pre.alive
        /\ started
        /\ sent = <<>>

\* a second start() on a session whose owned process is alive
C2_Witness ==
    /\ res.op = "start" /\ pre.started /\ pre.sis \in pre.alive
    /\ ~res.success /\ started

\* C3: on a running session, a stop() during which the child dies (on quit or
\* on the forced close) returns success with no errors and leaves started
\* false; a start() called next, whose new child prints the prompt, returns
\* success with no errors, found started false and leaves it true.
C3_StopThenStart ==
    /\ (res.op = "stop" /\ pre.started /\ ChildDied) =>
            res.success /\ res.errors = <<>> /\ ~started
    /\ (res.op = "start" /\ prev = "stop" /\ io.spawn.ok /\ HasPrompt(io.spawn.stream)) =>
            res.success /\ res.errors = <<>> /\ ~pre.started /\ started

\* a successful start() right after a successful stop()
C3_Witness ==
    /\ res.op = "start" /\ prev = "stop" /\ HasPrompt(io.spawn.stream)
    /\ res.success /\ started /\ sis \in alive /\ sis # pre.sis

\* C4: stop() on a session that is not running returns success = false with
\* the single NotRunning error, writes nothing to any process and leaves the
\* session not running (so does every stop() repeated after a successful one).
C4_StopNotRunning ==
    (res.op = "stop" /\ ~pre.started) =>
        /\ ~res.success
        /\ res.errors = << <<"STOP_NOT_RUNNING">> >>
        /\ sent = <<>>
        /\ ~started
        /\ Fields(Self) = pre

\* a stop() repeated right after a successful stop()
C4_Witness ==
    /\ res.op = "stop" /\ prev = "stop" /\ ~pre.started
    /\ res.errors = << <<"STOP_NOT_RUNNING">> >>

\* C5: when the stop() inside reset() fails (the session was not running, or
\* the child survived the forced close), reset() returns success = false with
\* the stop error prefixed by the reset (stop step) context, spawns nothing,
\* and started, readsomething and read_path are what they were; when the child
\* of a running session dies and the new child prints the prompt, reset()
\* returns success with no errors and the session is running.
C5_ResetShortCircuit ==
    res.op = "reset" =>
        /\ ~pre.started =>
                /\ ~res.success
                /\ res.errors = << <<"RESET_STOP_STEP", "STOP_NOT_RUNNING">> >>
                /\ Fields(Self) = pre
        /\ (pre.started /\ ~ChildDied) =>
                /\ ~res.success
                /\ res.errors = << <<"RESET_STOP_STEP", "STOP_COULD_NOT_STOP">> >>
                /\ nspawned = pre.nspawned /\ sis = pre.sis
                /\ started = pre.started
                /\ readsomething = pre.readsomething
                /\ read_path = pre.read_path
        /\ (pre.started /\ ChildDied /\ io.spawn.ok /\ HasPrompt(io.spawn.stream)) =>
                /\ res.success /\ res.errors = <<>>
                /\ started /\ sis = pre.nspawned + 1 /\ sis \in alive

\* a reset() whose stop step failed on a running session that had read a file
C5_Witness ==
    /\ res.op = "reset" /\ pre.started /\ pre.readsomething /\ io.dies = "never"
    /\ ~res.success /\ started /\ readsomething

\* C6: after every successful reset(), and after every successful start() that
\* follows a successful stop(), readsomething is false.
C6_HasInputReinitialised ==
    (\/ res.op = "reset" /\ res.success
     \/ res.op = "start" /\ res.success /\ prev = "stop") => ~readsomething

\* C7: no command line is written to a process that holds an earlier command
\* line whose prompt marker has not been observed.
C7_HalfDuplex ==
    \A i \in DOMAIN sent : sent[i].kind = "line" => ~sent[i].busy

\* the text the child wrote after the echo of the command, markers left out
RECURSIVE without_markers(_)
without_markers(t) ==
    IF t = <<>> THEN <<>>
    ELSE IF Head(t) \in {PROMPT, MORE} THEN without_markers(Tail(t))
    ELSE <<Head(t)>> \o without_markers(Tail(t))

PagesText(stream, t_command) ==
    LET text == strip(without_markers(removeprefix(stream.data, EchoOf(t_command))))
    IN  IF text = <<>> THEN None ELSE text

\* C8: when the response to a command is several pages, each ending in a
\* pagination marker, and a last page ending in the prompt, exec returns
\* success and stdout is the text of the pages in the order they came, without
\* the markers and without the echoed command line.
C8_PaginationTransparency ==
    (res.op = "exec" /\ pre.started /\ HasMore(io.stream) /\ HasPrompt(io.stream)) =>
        /\ res.success
        /\ find(res.stdout, {MORE}, 1) = 0
        /\ res.stdout = PagesText(io.stream, io.command)

\* C9: when the stream closes before a prompt marker, exec returns success
\* only for the commands quit and exit.
C9_UnexpectedEnd ==
    (res.op = "exec" /\ pre.started /\ ClosedBeforePrompt(io.stream)) =>
        (res.success => strip(io.command) \in Quit)

\* C10: after exec of quit or exit has returned success, started is false;
\* exec of any other command leaves started as it was.
C10_QuitStopsSession ==
    res.op = "exec" =>
        /\ (strip(io.command) \in Quit /\ res.success) => ~started
        /\ strip(io.command) \notin Quit => started = pre.started

\* C11: a start() that spawned a child returns success and sets started only
\* if the prompt marker was in the child's output; when the stream closes or
\* the wait times out before the prompt, it returns failure and started stays
\* false.
C11_StartNeedsPrompt ==
    (res.op = "start" /\ ~pre.started /\ io.spawn.ok) =>
        /\ res.success <=> HasPrompt(io.spawn.stream)
        /\ started <=> HasPrompt(io.spawn.stream)

\* the operations that return a dictionary with the key "success"
Returned == res.op # "none" /\ res.raised = "no"

\* C12: in the dictionary any operation returns, success true implies that
\* errors is empty (a non-empty errors implies success false).
C12_SuccessHasNoErrors ==
    (Returned /\ res.success) => res.errors = <<>>

\* a workflow whose every step succeeded
C12_Witness ==
    /\ res.op = "bsisscript_lgate"
    /\ Returned
    /\ res.success
    /\ res.errors = <<>>

\* C13: the dictionary any operation returns with success false carries at
\* least one error, script_rugged and stg_to_network with residual output and
\* the workflows that call them included.
C13_FailureHasError ==
    (Returned /\ ~res.success) => res.errors # <<>>

\* C14: no operation raises: whatever the state of the session and the
\* response of the child, each operation returns a dictionary (a workflow
\* before any read, read_eqn on a "Warning: " line, print_stats and simulate
\* on no output, simulate when its print_stats fails).
C14_NoOperationRaises ==
    res.op # "none" => res.raised = "no"

\* C15: on a running session on which no read has succeeded, write_blif()
\* and write_eqn(), whatever the path and the flags, return success false
\* with the one error "nothing to write" and send nothing to the child.
C15_WriteNeedsRead ==
    (res.op \in {"write_blif", "write_eqn"} /\ pre.started /\ ~pre.readsomething) =>
        /\ res.raised = "no"
        /\ ~res.success
        /\ res.errors = IF res.op = "write_blif" THEN << <<"WRITE_BLIF_NOTHING_TO_WRITE">> >>
                        ELSE << <<"WRITE_EQN_NOTHING_TO_WRITE">> >>
        /\ sent = <<>>
        /\ Fields(Self) = pre

\* write_blif with a path and a flag on a running session that has read nothing
C15_Witness ==
    /\ res.op = "write_blif"
    /\ pre.started
    /\ ~pre.readsomething
    /\ io.file # <<>>
    /\ io.params # <<>>
    /\ ~res.success

\* the command line of the read in res, and whether a read command was sent
ReadCommand ==
    IF res.op = "read_blif" THEN read_blif_command(realpath(io.file), io.append)
    ELSE read_eqn_command(realpath(io.file), io.append)

ReadCommandSent ==
    \E i \in DOMAIN sent :
        sent[i].kind = "line" /\ Head(sent[i].line) \in {"read_blif", "read_eqn"}

\* a read of a path that is not a file returns the error "file doesn't exist"
\* with the resolved path and sends no read command
C16_MissingFile ==
    (res.op \in {"read_blif", "read_eqn"} /\ pre.started /\ ~isfile(realpath(io.file))) =>
        /\ res.raised = "no"
        /\ ~res.success
        /\ res.errors = << <<IF res.op = "read_blif" THEN "READ_BLIF_FILE_DOES_NOT_EXIST"
                             ELSE "READ_EQN_FILE_DOES_NOT_EXIST">> \o realpath(io.file) >>
        /\ ~ReadCommandSent

\* a read on a session that is not running returns the error "not running"
\* and sends nothing
C16_NotRunning ==
    (res.op \in {"read_blif", "read_eqn"} /\ ~pre.started) =>
        /\ res.raised = "no"
        /\ ~res.success
        /\ res.errors = << <<IF res.op = "read_blif" THEN "READ_BLIF_NOT_RUNNING"
                             ELSE "READ_EQN_NOT_RUNNING">> >>
        /\ sent = <<>>

\* whatever failed before, a read of a file that exists, answered by the
\* prompt alone, succeeds
C16_LaterRead ==
    (res.op \in {"read_blif", "read_eqn"} /\ pre.started
     /\ io.stream = StreamOf(EchoOf(ReadCommand), <<>>, "prompt")) =>
        /\ res.success
        /\ readsomething
        /\ read_path = realpath(io.file)

\* C16: a read (read_blif, read_eqn) of a path that is not an existing file
\* returns success false with the "file doesn't exist" error and its resolved
\* path and sends no read command; a read on a session that is not running
\* returns "not running" and sends nothing; a later read of a valid file on a
\* running session succeeds.
C16_ReadFailures ==
    /\ C16_MissingFile
    /\ C16_NotRunning
    /\ C16_LaterRead

\* the call in res is a read, made directly or through parsed_exec, and its
\* file
IsRead ==
    \/ res.op \in {"read_blif", "read_eqn"}
    \/ /\ res.op = "parsed_exec"
       /\ parsed_shape(strip(io.command)).method \in {"read_blif", "read_eqn"}

ReadFile ==
    IF res.op = "parsed_exec" THEN parsed_shape(strip(io.command)).file ELSE io.file

SuccessfulRead == IsRead /\ Returned /\ res.success

\* C17: readsomething changes from false to true only by a read that returns
\* success on a session that is running; readsomething is true exactly when
\* read_path is set, and read_path is the resolved path of the most recent
\* successful read.
C17_ReadSomething ==
    /\ (~pre.readsomething /\ readsomething) => (SuccessfulRead /\ pre.started /\ started)
    /\ readsomething <=> read_path # None
    /\ SuccessfulRead => read_path = realpath(ReadFile)
    /\ ~SuccessfulRead => read_path = pre.read_path

\* the first successful read of a session
C17_Witness ==
    /\ res.op = "read_eqn"
    /\ res.success
    /\ ~pre.readsomething
    /\ readsomething
    /\ read_path = realpath(<<"and.eqn">>)

\* the output of the read command of the read in res, as exec returns it, and
\* its lines
ReadOutput == exec_running(New, ReadCommand, io.stream).res

ReadLines == split(ReadOutput.stdout)

IsWarning(line) == startswith(strip(line), <<"Warning: ">>)

IsError(line) == strip(line) # <<>> /\ ~IsWarning(line)

Messages(lines) == [i \in DOMAIN lines |-> manage_errors(strip(lines[i]))]

\* C18: for read_blif and read_eqn, each line of the output of the read
\* command that begins with "Warning: " is added to warnings, each other line
\* that is not empty is added to errors, an empty line to neither, and the
\* read succeeds exactly when no line was added to errors.
C18_ReadClassification ==
    (/\ res.op \in {"read_blif", "read_eqn"}
     /\ io.stream # NoStream
     /\ ReadOutput.success
     /\ ReadOutput.stdout # None) =>
        /\ res.raised = "no"
        /\ res.warnings = Messages(SelectSeq(ReadLines, IsWarning))
        /\ res.errors = Messages(SelectSeq(ReadLines, IsError))
        /\ res.success <=> (SelectSeq(ReadLines, IsError) = <<>>)

\* the session state an operation is given and the one it leaves: the flags,
\* the path and the process the session owns
SessionState(f) ==
    [started |-> f.started, readsomething |-> f.readsomething, read_path |-> f.read_path,
     sis |-> f.sis]

\* the operation asked the process it was given to leave, and the process is
\* gone (a process whose stream closes on its own is not terminated by the
\* operation)
Terminated ==
    /\ pre.sis \in pre.alive
    /\ pre.sis \notin alive
    /\ \E i \in DOMAIN sent :
            sent[i].kind = "line" /\ sent[i].proc = pre.sis /\ sent[i].line \in Quit
    /\ ~(res.op \in {"exec", "parsed_exec"} /\ strip(io.command) \in Quit)

\* C19: an operation other than stop() that returns success false leaves
\* started, readsomething, read_path and the identity and liveness of the
\* owned process as they were before the call; a read that fails does not
\* terminate or restart the process.
C19_FailureLeavesSession ==
    (Returned /\ res.op \notin {"stop", "init"} /\ ~res.success) =>
        /\ SessionState(Fields(Self)) = SessionState(pre)
        /\ ~Terminated

\* the call in res is a workflow, made directly or through parsed_exec
\* "bsis_script <variant>"
Workflows == {"bsisscript_fsm", "bsisscript_lgate", "bsisscript_fsmd"}

IsWorkflow ==
    \/ res.op \in Workflows
    \/ res.op = "parsed_exec" /\ parsed_shape(strip(io.command)).method \in Workflows

NothingToProcess ==
    {<< <<"BSISSCRIPT_FSM_NOTHING_TO_OPTIMIZE">> >>, << <<"BSISSCRIPT_LGATE_NOTHING_TO_OPTIMIZE">> >>}

\* C20: on a running session where readsomething is false, each workflow,
\* called directly or through parsed_exec, returns success false with the
\* "nothing to optimize" error and issues no step: nothing is sent to the
\* child.
C20_WorkflowNeedsRead ==
    (IsWorkflow /\ pre.started /\ ~pre.readsomething) =>
        /\ res.raised = "no"
        /\ ~res.success
        /\ res.errors \in NothingToProcess
        /\ sent = <<>>

\* the session a call was given, the steps of the workflow in res and what
\* each of them returned: the list ends with the step that raised, if any
PreSelf == pre @@ [sent |-> <<>>]

WorkflowSteps ==
    CASE res.op = "bsisscript_fsm" -> fsm_steps(io.autoencoding, io.opt_area)
      [] res.op = "bsisscript_lgate" -> lgate_steps(io.opt_area, io.library)
      [] OTHER -> lgate_steps(io.opt_area, "synch")

RECURSIVE step_results(_, _, _)
step_results(self, steps, answers) ==
    IF steps = <<>> THEN <<>>
    ELSE
        LET rest(r) ==
                <<r.res @@ NoEnvelope>>
                \o (IF Raised(r) THEN <<>>
                    ELSE step_results(r.self, Tail(steps), Tail(answers)))
            called(step) ==
                rest(step_call(self, step,
                               Answer(self, step_command(step, self.read_path), Head(answers))))
        IN  called(Head(steps))

StepResults == step_results(PreSelf, WorkflowSteps, io.answers)

StepFailed(r) == r.raised # "no" \/ ~r.success

\* the lines the call sent, and the command lines of its steps
IsLine(s) == s.kind = "line"

SentLines == [i \in DOMAIN SelectSeq(sent, IsLine) |-> SelectSeq(sent, IsLine)[i].line]

IsCommand(line) == line # <<>>

StepLines ==
    SelectSeq([i \in DOMAIN WorkflowSteps |->
                  strip(step_command(WorkflowSteps[i], pre.read_path))], IsCommand)

Elements(seq) == {seq[i] : i \in DOMAIN seq}

\* a workflow that runs its steps: the session is running and has read
RunsSteps == res.op \in Workflows /\ pre.started /\ pre.readsomething

\* C21: the steps a workflow issues depend on its parameters only, never on
\* the outcome of earlier steps: when a step fails every later step is still
\* issued, the errors and outputs of all steps are in the result, and success
\* is false.
C21_StepsRegardlessOfOutcome ==
    RunsSteps =>
        /\ SentLines = StepLines
        /\ (\E i \in DOMAIN StepResults : StepFailed(StepResults[i])) =>
              /\ Returned
              /\ ~res.success
              /\ \A i \in DOMAIN StepResults :
                    /\ Elements(StepResults[i].errors) \subseteq Elements(res.errors)
                    /\ (WorkflowSteps[i].call = "print_stats"
                        /\ StepResults[i].output # NoOutput) =>
                            /\ WorkflowSteps[i].tag \in DOMAIN res.output
                            /\ res.output[WorkflowSteps[i].tag] = StepResults[i].output

\* C22: the success of a workflow is true exactly when every step it issued
\* returned success, the statistics, the optimisation and mapping commands
\* and the exports (write_blif) alike.
C22_SuccessOfEveryStep ==
    (RunsSteps /\ Returned) =>
        (res.success <=> \A i \in DOMAIN StepResults : ~StepFailed(StepResults[i]))

\* errors carries the error sub of a sub-call: one of its strings ends with
\* sub, whatever context comes before
Carries(errors, sub) ==
    \E i \in DOMAIN errors :
        /\ Len(errors[i]) >= Len(sub)
        /\ SubSeq(errors[i], Len(errors[i]) - Len(sub) + 1, Len(errors[i])) = sub

CarriesAll(errors, subs) == \A j \in DOMAIN subs : Carries(errors, subs[j])

\* the command the handler in res gives to exec, and what exec returns for it
HandlerCommand ==
    CASE res.op \in {"read_blif", "read_eqn"} -> ReadCommand
      [] res.op \in {"write_blif", "write_eqn"} -> write_command(res.op, io.file, io.params)
      [] res.op = "script_rugged" -> <<"source", " ", "script.rugged">>
      [] res.op = "stg_to_network" -> <<"stg_to_network">>
      [] res.op = "print_stats" -> <<"print_stats">>
      [] OTHER -> <<>>

Handlers ==
    {"read_blif", "read_eqn", "write_blif", "write_eqn", "script_rugged", "stg_to_network",
     "print_stats"}

EngineCall == exec_running(New, HandlerCommand, io.stream).res

\* the reset a read makes before it reads
ReadResets ==
    /\ res.op \in {"read_blif", "read_eqn"}
    /\ pre.started
    /\ io.changedir
    /\ isdir(dirname(realpath(io.file)))

ReadReset == reset(PreSelf, io.dies, io.spawn).res

\* the errors of the engine call of a handler are in the errors it returns
C23_EngineCall ==
    (res.op \in Handlers /\ Returned /\ io.stream # NoStream) =>
        CarriesAll(res.errors, EngineCall.errors)

\* the errors of the reset of a read are in the errors the read returns
C23_ReadReset ==
    (ReadResets /\ Returned) => CarriesAll(res.errors, ReadReset.errors)

\* the errors of every step of a workflow are in the errors it returns
C23_WorkflowSteps ==
    (RunsSteps /\ Returned) =>
        \A i \in DOMAIN StepResults : CarriesAll(res.errors, StepResults[i].errors)

\* C23: every error of an internal sub-call (a step of a workflow, its file
\* exports included, the reset a read makes, the engine call of a handler) is
\* in the errors the caller returns, after the context of the caller; none is
\* dropped.
C23_SubCallErrors ==
    /\ C23_EngineCall
    /\ C23_ReadReset
    /\ C23_WorkflowSteps

\* a write on a running session that has read and whose connection no failed
\* stop() has closed, and one with neither a path nor flags
Writes ==
    /\ res.op \in {"write_blif", "write_eqn"}
    /\ pre.started
    /\ pre.readsomething
    /\ ~pre.closed

BareWrite == Writes /\ io.file = <<>> /\ io.params = <<>>

WriteExecError == IF res.op = "write_blif" THEN "WRITE_BLIF_EXEC" ELSE "WRITE_EQN_EXEC"

\* C24, as stated: a write with neither a path nor flags on a running session
\* that has read sends the bare write command and always returns success,
\* with what the command printed as stdout, whatever the child answers.
C24_BareWriteAlwaysSucceeds ==
    BareWrite =>
        /\ SentLines = << <<res.op>> >>
        /\ Returned
        /\ res.success
        /\ res.stdout = EngineCall.stdout

\* C24, amended: a write with neither a path nor flags sends the bare write
\* command and returns success exactly when the engine call succeeded, with
\* the output of the command as stdout whatever it is; when the engine call
\* fails it returns the errors of the engine call after its own context.
C24_BareWritePrints ==
    BareWrite =>
        /\ SentLines = << <<res.op>> >>
        /\ Returned
        /\ res.success <=> EngineCall.success
        /\ res.stdout = EngineCall.stdout
        /\ res.errors = PrefixAll(WriteExecError, EngineCall.errors)

\* the bare write_blif printed a text, and succeeded
C24_Witness ==
    /\ BareWrite
    /\ res.op = "write_blif"
    /\ res.success
    /\ res.stdout = <<"out">>

\* a write with a path, flags or both, and the line the claim says it sends
PathWrite == Writes /\ ~(io.file = <<>> /\ io.params = <<>>)

WriteLine ==
    <<res.op>>
    \o (IF io.params = <<>> THEN <<>> ELSE <<" ">> \o io.params)
    \o (IF io.file = <<>> THEN <<>> ELSE <<" ">> \o io.file)

WriteWentWrong ==
    IF res.op = "write_blif" THEN "WRITE_BLIF_WENT_WRONG" ELSE "WRITE_EQN_WENT_WRONG"

\* C25: a write with a path and/or flags on a session that has read sends one
\* command, the verb, then the flags, then the path, and returns success
\* exactly when the engine call succeeded with no output; any output gives
\* success false with the write error and the output as stdout.
C25_PathWrite ==
    PathWrite =>
        /\ SentLines = <<WriteLine>>
        /\ Returned
        /\ res.success <=> (EngineCall.success /\ EngineCall.stdout = None)
        /\ (EngineCall.success /\ EngineCall.stdout # None) =>
              /\ res.errors = << <<WriteWentWrong>> >>
              /\ res.stdout = EngineCall.stdout
        /\ ~EngineCall.success => res.errors = PrefixAll(WriteExecError, EngineCall.errors)

\* write_eqn with flags and a path, answered by a line of output
C25_Witness ==
    /\ PathWrite
    /\ res.op = "write_eqn"
    /\ io.file # <<>>
    /\ io.params # <<>>
    /\ ~res.success
    /\ res.stdout = <<"out">>

\* print_stats on a running session that has read, whose engine call
\* succeeded, and the lines of the output of the command
StatsQuery ==
    /\ res.op = "print_stats"
    /\ pre.started
    /\ pre.readsomething
    /\ ~pre.closed
    /\ EngineCall.success

StatsLines == IF EngineCall.stdout = None THEN <<>> ELSE split(strip(EngineCall.stdout))

\* the output is two lines that match the patterns, and every number the
\* patterns capture is there
StatsShape ==
    /\ Len(StatsLines) = 2
    /\ minfos(StatsLines[1]).matched
    /\ mlits(StatsLines[2]).matched

StatsNumbers ==
    /\ \A g \in 2..5 : minfos(StatsLines[1]).groups[g] # ""
    /\ mlits(StatsLines[2]).groups[1] # ""
    /\ mstates(StatsLines[2]).matched => mstates(StatsLines[2]).groups[1] # ""

UnexpectedOutputShape ==
    {<< <<"PRINT_STATS_EXECUTION">> >>, << <<"PRINT_STATS_OUTPUT_PARSING">> >>}

\* C26: print_stats returns success false with an "unexpected output" error
\* whenever the output of the command is not two lines that match the
\* patterns, no output at all included, and with the "not a number" error
\* when a captured number is empty; output stays absent in both cases.
C26_StatsErrors ==
    StatsQuery =>
        /\ ~StatsShape =>
              /\ Returned
              /\ ~res.success
              /\ res.errors \in UnexpectedOutputShape
              /\ res.output = NoOutput
        /\ (StatsShape /\ ~StatsNumbers) =>
              /\ Returned
              /\ ~res.success
              /\ res.errors = << <<"PRINT_STATS_NOT_A_NUMBER">> >>
              /\ res.output = NoOutput

\* the two lines of the output of print_stats, and the fields of a first line
\* '<name> pi=<a> po=<b> nodes=<c> latches=<d>'
Infos == StatsLines[1]

LitsStates == StatsLines[2]

InfosFields ==
    /\ Len(Infos) = 13
    /\ \A i \in {2, 5, 8, 11} : Infos[i] = " "
    /\ <<Infos[3], Infos[6], Infos[9], Infos[12]>> = <<"pi=", "po=", "nodes=", "latches=">>
    /\ \A i \in {4, 7, 10, 13} : Infos[i] \in Numbers

\* the number that follows key in the second line, "" when key is not there
Field(key) ==
    IF \E i \in 1..(Len(LitsStates) - 1) : LitsStates[i] = key /\ LitsStates[i + 1] \in Numbers
    THEN LitsStates[(CHOOSE i \in 1..(Len(LitsStates) - 1) :
                        LitsStates[i] = key /\ LitsStates[i + 1] \in Numbers) + 1]
    ELSE ""

\* the text sis prints as the session reads it: the terminal turns each line
\* feed into a carriage return and a line feed
onlcr(text) == [i \in DOMAIN text |-> IF text[i] = "\n" THEN NL ELSE text[i]]

RawStats ==
    <<"and", " ", "pi=", "2", " ", "po=", "1", " ", "nodes=", "1", " ", "latches=", "0", "\n",
      "lits(sop)=", "2", "\n">>

SimulateCall == res.op = "simulate" /\ pre.started /\ pre.readsomething

\* the argument holds a character other than 0, 1 and the space
InvalidInputs == \E i \in DOMAIN io.command : io.command[i] \notin {"0", "1", " "}

\* C28: on a running session that has read a file, simulate() with an
\* argument holding any character other than 0, 1 and the space returns the
\* failure envelope whose only error is the invalid-inputs one and sends the
\* child nothing, neither the simulate command nor a print_stats
C28_InvalidInputs ==
    (SimulateCall /\ InvalidInputs) =>
        /\ Returned
        /\ ~res.success
        /\ res.errors = << <<"SIMULATE_INVALID_INPUTS">> >>
        /\ res.stdout = None
        /\ sent = <<>>

C28_Witness ==
    /\ SimulateCall
    /\ io.command = <<"1", "0", "2", "x">>
    /\ res.errors = << <<"SIMULATE_INVALID_INPUTS">> >>
    /\ sent = <<>>

\* simulate() that gave the child its command, what exec returned for it and
\* the lines of the response
SimulateRan == SimulateCall /\ ~InvalidInputs /\ ~pre.closed

SimulateEngine == exec(PreSelf, simulate_command(io.command), io.stream).res

SimulateLines ==
    IF SimulateEngine.success /\ SimulateEngine.stdout # None
    THEN split(strip(SimulateEngine.stdout))
    ELSE <<>>

NetworkShape ==
    /\ Len(SimulateLines) = 3
    /\ SimulateLines[1] = <<"Network simulation:">>

StgShape ==
    /\ Len(SimulateLines) = 7
    /\ SimulateLines[1] = <<"Network simulation:">>
    /\ SimulateLines[5] = <<"STG simulation:">>

\* what a line of the response has after its label, spaces apart
ValueAfter(label, line) ==
    LET kept(t) == t \notin {label, " "}
    IN  SelectSeq(line, kept)

\* C29: simulate returns success with an output of outputs and next_state
\* alone when the response is 3 lines under 'Network simulation:', and with
\* outputs, next_state, stg_outputs and stg_next_state when it is 7 lines with
\* 'Network simulation:' on line 1 and 'STG simulation:' on line 5; it returns
\* success on no other response.
C29_SimulateShapes ==
    /\ (SimulateRan /\ NetworkShape) =>
          /\ Returned
          /\ res.success
          /\ res.errors = <<>>
          /\ DOMAIN res.output = {"outputs", "next_state"}
          /\ res.output.outputs = ValueAfter("Outputs:", SimulateLines[2])
          /\ res.output.next_state = ValueAfter("Next state:", SimulateLines[3])
    /\ (SimulateRan /\ StgShape) =>
          /\ Returned
          /\ res.success
          /\ res.errors = <<>>
          /\ DOMAIN res.output = {"outputs", "next_state", "stg_outputs", "stg_next_state"}
          /\ res.output.outputs = ValueAfter("Outputs:", SimulateLines[2])
          /\ res.output.next_state = ValueAfter("Next state:", SimulateLines[3])
          /\ res.output.stg_outputs = ValueAfter("Outputs:", SimulateLines[6])
          /\ res.output.stg_next_state = ValueAfter("Next state:", SimulateLines[7])
    /\ (res.op = "simulate" /\ Returned /\ res.success) =>
          SimulateRan /\ (NetworkShape \/ StgShape)

C29_Witness ==
    /\ SimulateRan
    /\ StgShape
    /\ res.success
    /\ res.output.stg_next_state = <<"s0">>

\* the response of simulate is neither of the two simulations
OtherShape ==
    /\ SimulateRan
    /\ SimulateEngine.success
    /\ SimulateEngine.stdout # None
    /\ ~NetworkShape
    /\ ~StgShape

\* the print_stats that simulate makes after such a response
ReQuery == print_stats(exec(PreSelf, simulate_command(io.command), io.stream).self, io.stats)

ReQuerySucceeded == ~Raised(ReQuery) /\ ReQuery.res.success

\* the first line of the response tells the number of inputs of the network
NamesInputs == has_inputs_diagnostic(SimulateLines[1], ReQuery.res.output.pi)

\* one print_stats after the simulate command, and one error in the result
OneReQuery == SentLines = <<simulate_command(io.command), <<"print_stats">> >>

OneError ==
    /\ Returned
    /\ ~res.success
    /\ Len(res.errors) = 1
    /\ res.output = NoOutput

\* simulate() as long as the print_stats it makes succeeds
C30_ReQuerySucceeded ==
    (OtherShape /\ ReQuerySucceeded) =>
        /\ OneReQuery
        /\ OneError
        /\ res.errors[1] = IF NamesInputs THEN SimulateLines[1] ELSE <<"SIMULATE_WENT_WRONG">>

\* C30: when the response of simulate has another number of lines or another
\* header, simulate sends one print_stats after the simulate command and
\* returns a failure envelope with one error, the line of the response that
\* tells the number of inputs of the network when there is one and the
\* "something went wrong" error otherwise, also when the print_stats fails.
C30_ReQuery ==
    /\ C30_ReQuerySucceeded
    /\ (OtherShape /\ ~ReQuerySucceeded) =>
          /\ OneReQuery
          /\ OneError

(***************************************************************************)
(* parsed_exec()                                                           *)
(***************************************************************************)
\* the words of the command given to parsed_exec, and the shapes it
\* recognises: a read with a file and an optional -a before or after it, a
\* write with a file, the script, the statistics, the conversion, a
\* simulation with an argument, bsis_script with one of its variants
CommandWords == words(strip(io.command))

BsisScriptVariants ==
    {<<"fsm_autoencoding_area">>, <<"fsm_autoencoding_delay">>, <<"fsm_area">>, <<"fsm_delay">>,
     <<"lgate_area_mcnc">>, <<"lgate_delay_mcnc">>, <<"lgate_area_synch">>,
     <<"lgate_delay_synch">>, <<"fsmd_area">>, <<"fsmd_delay">>}

Recognised ==
    /\ CommandWords # <<>>
    /\ \/ /\ CommandWords[1] \in {<<"read_blif">>, <<"read_eqn">>}
          /\ \/ Len(CommandWords) = 2
             \/ Len(CommandWords) = 3 /\ <<"-a">> \in {CommandWords[2], CommandWords[3]}
       \/ CommandWords[1] \in {<<"write_blif">>, <<"write_eqn">>} /\ Len(CommandWords) = 2
       \/ CommandWords = << <<"source">>, <<"script.rugged">> >>
       \/ CommandWords \in {<< <<"print_stats">> >>, << <<"stg_to_network">> >>}
       \/ CommandWords[1] \in {<<"simulate">>, <<"sim">>} /\ Len(CommandWords) >= 2
       \/ /\ CommandWords[1] = <<"bsis_script">>
          /\ Len(CommandWords) = 2
          /\ CommandWords[2] \in BsisScriptVariants

Unrecognised == res.op = "parsed_exec" /\ ~Recognised

\* bsis_script with anything but one of its variants
UnknownVariant == Unrecognised /\ CommandWords # <<>> /\ CommandWords[1] = <<"bsis_script">>

\* exec of the stripped command, and parsed_exec doing that and nothing else
RawExec == exec(PreSelf, strip(io.command), io.stream)

ReturnsRawExec ==
    /\ res = [op |-> "parsed_exec"] @@ RawExec.res @@ NoEnvelope
    /\ sent = RawExec.self.sent
    /\ Len(SentLines) = IF pre.started /\ ~pre.closed THEN 1 ELSE 0

\* a command that is no bsis_script and has no recognised shape goes to exec
C31_FallThrough == (Unrecognised /\ ~UnknownVariant) => ReturnsRawExec

\* C31: parsed_exec of a command that matches none of the recognised shapes,
\* bsis_script with an unknown variant included, makes one exec of the
\* stripped command and returns its result; parsed_exec adds no error of its
\* own.
C31_UnrecognisedIsExec == Unrecognised => ReturnsRawExec

(***************************************************************************)
(* The processes of a session                                              *)
(***************************************************************************)
\* the call spawned a process
Spawned == nspawned > pre.nspawned

\* C32: at most one process that the session spawned is alive, in every
\* state: once start() has spawned a process, every process spawned earlier
\* (one whose startup wait timed out, one whose stop failed) is gone.
C32_OneLiveProcess ==
    /\ Cardinality(alive) <= 1
    /\ (res.op # "none" /\ Spawned) => alive \subseteq {sis}

\* stop() on a running session, and the process it owned
StopCall == res.op = "stop" /\ pre.started

StillAliveAfterQuit == pre.sis \in pre.alive /\ io.dies # "quit"

ForceClosed == closed /\ ~pre.closed

\* C33: stop() on a running session sends the line 'quit' first and closes
\* the connection by force only if the process is still alive after it; it
\* returns success with started False exactly when the process is not alive
\* at the end, and the "couldn't stop" error with started True only when the
\* process is alive after the forced close.
C33_GracefulThenForced ==
    StopCall =>
        /\ Returned
        /\ ~pre.closed =>
              /\ Len(sent) = 1
              /\ SentLines = << <<"quit">> >>
              /\ sent[1].proc = pre.sis
        /\ ForceClosed => StillAliveAfterQuit
        /\ (~pre.closed /\ StillAliveAfterQuit) => ForceClosed
        /\ res.success <=> pre.sis \notin alive
        /\ res.success <=> ~started
        /\ res.success => res.errors = <<>>
        /\ ~res.success =>
              /\ res.errors = << <<"STOP_COULD_NOT_STOP">> >>
              /\ closed
              /\ io.dies = "never"

C33_Witness ==
    /\ StopCall
    /\ ForceClosed
    /\ res.success
    /\ io.dies = "force"

(***************************************************************************)
(* exec(): the wait                                                        *)
(***************************************************************************)
\* exec on a running session whose wait finds no prompt before the budget
\* expires
ExecTimeout ==
    /\ res.op = "exec"
    /\ pre.started
    /\ io.stream.end = "silent"
    /\ ~HasPrompt(io.stream)

\* C34: an exec whose wait ends in a timeout returns success false with the
\* timeout error after the context of exec, has sent the command line once,
\* has spawned nothing, and leaves started True and readsomething and
\* read_path as they were.
C34_TimeoutIsReported ==
    ExecTimeout =>
        /\ Returned
        /\ ~res.success
        /\ res.errors = << <<"EXEC_WAIT", "WAIT_END_COMMAND_TIMEOUT">> >>
        /\ res.stdout = None
        /\ SentLines = <<strip(io.command)>>
        /\ \A i \in DOMAIN sent : sent[i].proc = pre.sis
        /\ nspawned = pre.nspawned
        /\ sis = pre.sis
        /\ started
        /\ readsomething = pre.readsomething
        /\ read_path = pre.read_path

C34_Witness ==
    /\ ExecTimeout
    /\ pre.readsomething
    /\ HasMore(io.stream)
    /\ res.errors = << <<"EXEC_WAIT", "WAIT_END_COMMAND_TIMEOUT">> >>
    /\ started

(***************************************************************************)
(* exec(), step by step (specification Waiting)                            *)
(***************************************************************************)
\* exec() is in the loop of wait_end_command; it has returned
InLoop == waiting.pc = "expect"

ExecReturned == waiting.pc = "idle" /\ res.op = "exec"

\* what the child still writes has a prompt before any pagination marker, a
\* pagination marker before any prompt, neither
PromptNext == Match # 0 /\ waiting.buffer[Match] = PROMPT

MoreNext == Match # 0 /\ waiting.buffer[Match] = MORE

NoMarker == Match = 0

\* the exec() followed step by step returns what exec() returns and has sent
\* what exec() sends
StepsAreExec ==
    (ExecReturned /\ pre.started) =>
        \E r \in {exec(PreSelf, io.command, io.stream)} :
            /\ res = [op |-> "exec"] @@ r.res @@ NoEnvelope
            /\ sent = r.self.sent
            /\ <<started, alive, pending>> = <<r.self.started, r.self.alive, r.self.pending>>

\* the loop goes on only after a pagination marker
ContinuesAfterMore == [][(InLoop /\ InLoop') => MoreNext]_vars

\* the loop ends only when the prompt is found, the stream closes or the wait
\* budget expires without a marker
EndsOnEvent ==
    [][(InLoop /\ ~InLoop') =>
          \/ PromptNext
          \/ NoMarker /\ waiting.end = "eof"
          \/ NoMarker /\ waiting.end = "silent"]_vars

\* exec returns only after the loop has ended
ReturnsAfterLoop ==
    [][(waiting.pc # "idle" /\ waiting'.pc = "idle") => waiting.pc \in {"break", "except"}]_vars

\* C35: every exec returns: the loop of wait_end_command ends as soon as the
\* prompt is found, the stream closes or the wait budget expires without a
\* marker, and goes on only after a pagination marker, so exec returns
\* whenever the child writes finitely many pagination markers, and never
\* before one of the three events.
C35_ExecReturns ==
    /\ ContinuesAfterMore
    /\ EndsOnEvent
    /\ ReturnsAfterLoop
    /\ (InLoop /\ waiting.end # "endless") ~> ExecReturned

C35_Witness ==
    /\ ExecReturned
    /\ pre.started
    /\ HasMore(io.stream)
    /\ io.stream.end = "silent"
    /\ ~HasPrompt(io.stream)
    /\ ~res.success

(***************************************************************************)
(* The constructor                                                         *)
(***************************************************************************)
\* the session was just constructed; sis was spawned and its startup ended
\* with the prompt or with the end of the stream; the errors of start()
Constructed == res.op = "init"

StartSucceeded ==
    /\ io.spawn.ok
    /\ HasPrompt(io.spawn.stream) \/ io.spawn.stream.end = "eof"

StartErrors == start(New, io.spawn).res.errors

\* C36: a session just constructed whose start succeeded has started True,
\* readsomething False, read_path None, res.success True and no error in
\* res; when the start fails the constructor returns all the same, started is
\* False and res.errors holds every error of start() after the context of
\* __init__.
C36_Constructed ==
    Constructed =>
        /\ Returned
        /\ StartSucceeded =>
              /\ started
              /\ ~readsomething
              /\ read_path = None
              /\ res.success
              /\ res.errors = <<>>
        /\ ~StartSucceeded =>
              /\ ~started
              /\ ~readsomething
              /\ ~res.success
              /\ StartErrors # <<>>
              /\ Len(res.errors) = Len(StartErrors)
              /\ \A i \in DOMAIN StartErrors :
                    res.errors[i] = <<"INIT_START_STEP">> \o StartErrors[i]

C36_Witness ==
    /\ Constructed
    /\ ~StartSucceeded
    /\ res.errors = << <<"INIT_START_STEP", "START_WAIT", "WAIT_END_COMMAND_TIMEOUT">> >>

\* the keystrokes among what exec has sent, and the pagination markers in a
\* text
IsKey(s) == s.kind = "key"

Keys == SelectSeq(sent, IsKey)

Markers(text) == Cardinality({i \in DOMAIN text : text[i] = MORE})

\* what the loop has read so far of what the child writes, and what it reads
\* in all: the text up to the first prompt
ReadSoFar == SubSeq(io.stream.data, 1, Len(io.stream.data) - Len(waiting.buffer))

ReadInAll ==
    IF HasPrompt(io.stream)
    THEN SubSeq(io.stream.data, 1, find(io.stream.data, {PROMPT}, 1))
    ELSE io.stream.data

\* what exec has sent is the command line, then single spaces to the same
\* process
LineThenSpaces ==
    /\ sent # <<>>
    /\ sent[1] = [kind |-> "line", proc |-> sis, line |-> strip(io.command), busy |-> sent[1].busy]
    /\ \A i \in 2..Len(sent) :
          sent[i] = [kind |-> "key", proc |-> sis, line |-> <<" ">>, busy |-> FALSE]

\* as many spaces as markers, while the loop runs and when exec has returned
SpacePerMarker ==
    /\ (waiting.pc # "idle" /\ waiting.end # "endless") =>
          LineThenSpaces /\ Len(Keys) = Markers(ReadSoFar)
    /\ (waiting.pc # "idle" /\ waiting.end = "endless") =>
          LineThenSpaces /\ Len(Keys) = waiting.keys
    /\ (ExecReturned /\ pre.started) =>
          LineThenSpaces /\ Len(Keys) = Markers(ReadInAll)

\* a space is sent in the turn of the loop that found a marker, before the
\* next expect()
SpaceAfterMarker ==
    [][(waiting.pc # "idle" /\ sent' # sent) =>
          /\ InLoop
          /\ MoreNext
          /\ InLoop'
          /\ Len(sent') = Len(sent) + 1
          /\ waiting'.keys = waiting.keys + 1]_vars

\* a turn of the loop that found a marker sends a space
MarkerThenSpace ==
    [][(InLoop /\ InLoop') => Len(sent') = Len(sent) + 1]_vars

\* C37: during one exec, after the command line, one single space is sent
\* for each pagination marker found and nothing else: as many spaces as
\* markers, each sent after its marker and before the next expect(), nothing
\* after the prompt.
C37_SpacePerMarker ==
    /\ []SpacePerMarker
    /\ SpaceAfterMarker
    /\ MarkerThenSpace
    /\ [][waiting.pc \in {"break", "except"} => sent' = sent]_vars

C37_Witness ==
    /\ ExecReturned
    /\ pre.started
    /\ res.success
    /\ Len(Keys) = MaxMore
    /\ Markers(ReadInAll) = MaxMore

(***************************************************************************)
(* The order of bsisscript_fsm                                             *)
(***************************************************************************)
\* bsisscript_fsm on a running session that has read, whose connection no
\* failed stop() has closed
FsmRuns == res.op = "bsisscript_fsm" /\ pre.started /\ pre.readsomething /\ ~pre.closed

Snapshot(tag) == [line |-> <<"print_stats">>, tag |-> tag]

Command(line) == [line |-> line, tag |-> ""]

Export(name) ==
    Command(write_command("write_blif", newfile_fullpath(pre.read_path, name), <<>>))

\* the order of the steps: the line of each, and the tag of each snapshot
FsmOrder ==
    <<Snapshot("1_initial_stats"),
      Command(<<"state_minimize", " ", "stamina">>),
      Command(IF io.autoencoding THEN <<"state_assign", " ", "jedi">> ELSE <<"stg_to_network">>),
      Snapshot("2_optimized_states"),
      Export("state_min_encoding")>>
    \o (IF io.opt_area THEN <<>>
        ELSE <<Command(<<"reduce_depth">>), Snapshot("3_reduce_depth_stats")>>)
    \o <<Command(<<"source", " ", "script.rugged">>),
         Snapshot("4_rugged_stats"),
         Export("optimized"),
         Command(<<"read_library", " ", "synch.genlib">>),
         Command(IF io.opt_area THEN <<"map", " ", "-m", " ", "0", " ", "-W", " ", "-s">>
                 ELSE <<"map", " ", "-n", " ", "1", " ", "-W", " ", "-s">>),
         Snapshot("5_map_stats"),
         Export("mapped")>>

FsmLines == [i \in DOMAIN FsmOrder |-> FsmOrder[i].line]

IsPrefix(s, t) == Len(s) <= Len(t) /\ s = SubSeq(t, 1, Len(s))

\* C38: bsisscript_fsm sends its steps in this order: print_stats,
\* 'state_minimize stamina', 'state_assign jedi' (autoencoding) or
\* 'stg_to_network', print_stats, the export of 'state_min_encoding', for the
\* delay alone 'reduce_depth' and print_stats, then 'source script.rugged',
\* print_stats, the export of 'optimized', 'read_library synch.genlib', the
\* map ('-m 0 -W -s' for the area, '-n 1 -W -s' for the delay), print_stats,
\* the export of 'mapped'; the record of a print_stats is in output under its
\* tag exactly when that print_stats succeeded.
C38_FsmOrder ==
    FsmRuns =>
        /\ IsPrefix(SentLines, FsmLines)
        /\ Returned =>
              /\ SentLines = FsmLines
              /\ \A i \in DOMAIN FsmOrder :
                    FsmOrder[i].tag # "" =>
                        /\ FsmOrder[i].tag \in DOMAIN res.output <=> StepResults[i].success
                        /\ StepResults[i].success =>
                              res.output[FsmOrder[i].tag] = StepResults[i].output
              /\ DOMAIN res.output \subseteq {FsmOrder[i].tag : i \in DOMAIN FsmOrder}

C38_Witness ==
    /\ FsmRuns
    /\ Returned
    /\ ~io.opt_area
    /\ ~io.autoencoding
    /\ Len(SentLines) = 14
    /\ DOMAIN res.output =
          {"1_initial_stats", "2_optimized_states", "4_rugged_stats", "5_map_stats"}

(***************************************************************************)
(* Commands that need a network                                            *)
(***************************************************************************)
\* a command line of an operation that requires readsomething
NeedsNetwork(line) ==
    \/ line # <<>> /\ Head(line) \in {"write_blif", "write_eqn", "print_stats", "simulate",
                                     "stg_to_network"}
    \/ line = <<"source", " ", "script.rugged">>

\* the operations that require readsomething, called by their methods
DirectCalls ==
    {"write_blif", "write_eqn", "print_stats", "simulate", "stg_to_network", "script_rugged"}

NoNetworkCommandSent == \A i \in DOMAIN SentLines : ~NeedsNetwork(SentLines[i])

\* a method that requires readsomething sends nothing without it
C39_DirectCalls ==
    (res.op \in DirectCalls /\ ~pre.readsomething) => sent = <<>>

\* C39: while readsomething is False no command of write_blif, write_eqn,
\* print_stats, simulate, stg_to_network or source script.rugged reaches the
\* child, whether the method is called or parsed_exec is, whatever the form
\* of the argument: the bare 'write_blif', 'write_eqn' and 'simulate' and the
\* write commands with flags included.
C39_NoCommandWithoutNetwork ==
    /\ C39_DirectCalls
    /\ (res.op = "parsed_exec" /\ ~pre.readsomething) => NoNetworkCommandSent

(***************************************************************************)
(* The reset of a read                                                     *)
(***************************************************************************)
\* a read that changes the working directory, on a running session whose
\* connection no failed stop() has closed; parsed_exec always asks for it
ChangedirRead ==
    /\ IsRead
    /\ pre.started
    /\ ~pre.closed
    /\ res.op = "parsed_exec" \/ io.changedir

\* the reset that such a read makes, and the read command among the lines
\* the read sent
ChangedirReset == reset(PreSelf, io.dies, io.spawn).res

IsReadLine(s) == s.kind = "line" /\ Head(s.line) \in {"read_blif", "read_eqn"}

ReadCommandLines == SelectSeq(sent, IsReadLine)

\* C40: a read that changes the working directory, one that appends
\* included, stops and restarts the child before it sends the read command:
\* whenever its reset succeeds the read command is the first line that a
\* process spawned by this reset receives, and nothing was read into that
\* process before.
C40_ReadOnFreshProcess ==
    ChangedirRead =>
        /\ ReadCommandLines # <<>> =>
              /\ sent[1] = [kind |-> "line", proc |-> pre.sis, line |-> <<"quit">>,
                            busy |-> sent[1].busy]
              /\ Len(ReadCommandLines) = 1
        /\ (ReadCommandLines # <<>> /\ ChangedirReset.success) =>
              /\ Len(sent) = 2
              /\ IsReadLine(sent[2])
              /\ sent[2].proc = pre.nspawned + 1
              /\ sent[2].proc = sis
              /\ ~sent[2].busy
              /\ nspawned = pre.nspawned + 1
        /\ (ChangedirReset.success /\ isfile(realpath(ReadFile))
            /\ isdir(dirname(realpath(ReadFile)))) => ReadCommandLines # <<>>

C40_Witness ==
    /\ ChangedirRead
    /\ res.op = "parsed_exec"
    /\ pre.readsomething
    /\ ChangedirReset.success
    /\ ReadCommandLines # <<>>
    /\ Head(ReadCommandLines).line[3] = "-a"
    /\ sent[2].proc = pre.sis + 1

====
